---- MODULE Spec2Model ----
(***************************************************************************)
(* Model of the ML_ClashRoyale kedro pipelines: the data-preparation nodes *)
(* (select_relevant_columns, combine_datasets) and the EDA nodes           *)
(* (analyze_most_used_cards, analyze_win_conditions_usage,                 *)
(* analyze_rarity_distributions, generate_eda_summary).                    *)
(*                                                                         *)
(* A table (pandas DataFrame) is a record                                  *)
(*     [columns |-> sequence of column names, rows |-> sequence of rows]   *)
(* where a row is a function from the table's column names to cell values. *)
(* A cell is a positive integer or NaN.  A node's output artifact is       *)
(* [st |-> "none"] before the node ran, [st |-> "ok", val |-> v] after it  *)
(* returned v, and [st |-> "raised", exc |-> e] after it raised e.         *)
(***************************************************************************)
EXTENDS Integers, Sequences, FiniteSets, TLC

VARIABLES
    combates,                       \* <<Combates1, Combates2, Combates3>>, the raw tables
    combates_cleaned,               \* <<Combates1_cleaned, Combates2_cleaned, Combates3_cleaned>>
    card_master_list,               \* the CardCatalog table
    wincons,                        \* the WinConditionCatalog table
    business_objectives_analysis,   \* output of analyze_business_objectives
    current_situation_evaluation,   \* output of evaluate_current_situation
    ml_objectives_definition,       \* output of define_ml_objectives
    project_plan,                   \* output of generate_project_plan
    business_understanding_summary, \* output of create_business_summary
    selected_datasets,              \* output of select_relevant_columns
    combined_dataset,               \* output of combine_datasets
    dataset_validation,             \* output of validate_combined_dataset
    data_preparation_summary,       \* output of create_preparation_summary
    rarity_distributions_analysis,  \* output of analyze_rarity_distributions
    most_used_cards_analysis,       \* output of analyze_most_used_cards
    win_conditions_usage_analysis,  \* output of analyze_win_conditions_usage
    eda_summary,                    \* output of generate_eda_summary
    previous_run                    \* the artifacts of the run before this one

\* the report artifacts of the business-understanding pipeline
business_artifacts ==
    <<business_objectives_analysis, current_situation_evaluation,
      ml_objectives_definition, project_plan, business_understanding_summary>>

\* the report artifacts of the data-preparation pipeline past the unified table
validation_artifacts == <<dataset_validation, data_preparation_summary>>

vars == <<combates, combates_cleaned, card_master_list, wincons, business_artifacts,
          selected_datasets, combined_dataset, validation_artifacts,
          rarity_distributions_analysis, most_used_cards_analysis,
          win_conditions_usage_analysis, eda_summary, previous_run>>

-----------------------------------------------------------------------------
(* Bounds of the model. *)

\* most rows the three battle tables hold together in a data-preparation run
MaxPrepRows == 3

\* most rows the three battle tables hold together in an EDA run (bulk rows
\* not counted)
MaxRows == 2

\* how many distinct ids beyond the top-N cut-off a bulk table can add
MaxOverflow == 1

-----------------------------------------------------------------------------
(* Generic helpers: sequences and tables. *)

\* a missing cell: pandas NaN / None
NaN == 0 - 1

None == [st |-> "none"]
Ok(v) == [st |-> "ok", val |-> v]
Raised(e) == [st |-> "raised", exc |-> e]

Range(s) == {s[i] : i \in 1..Len(s)}

RECURSIVE SumSeq(_)
SumSeq(s) == IF s = <<>> THEN 0 ELSE Head(s) + SumSeq(Tail(s))

RECURSIVE Flatten(_)
Flatten(ss) == IF ss = <<>> THEN <<>> ELSE Head(ss) \o Flatten(Tail(ss))

\* len(df)
NRows(t) == Len(t.rows)

\* the cell of row r under column c; a column the row lacks reads NaN
Cell(r, c) == IF c \in DOMAIN r THEN r[c] ELSE NaN

-----------------------------------------------------------------------------
(* clean_and_rename_first_column.  Column labels need not be unique: under a *)
(* label that several columns carry, a row holds the tuple of their cells,   *)
(* in column order.                                                          *)

\* the positions of the columns labelled c, in column order
Positions(columns, c) ==
    SelectSeq([i \in 1..Len(columns) |-> i], LAMBDA i : columns[i] = c)

\* df.iloc[r, i]: the cell of row r in the column at position i
PosCell(df, r, i) ==
    LET at == Positions(df.columns, df.columns[i])
    IN  IF Len(at) = 1 THEN df.rows[r][df.columns[i]]
        ELSE df.rows[r][df.columns[i]][CHOOSE j \in 1..Len(at) : at[j] = i]

\* the table with the given column labels and the given cells, row by row and
\* position by position
FromPositional(columns, data) ==
    [columns |-> columns,
     rows |-> [r \in 1..Len(data) |->
                 [c \in Range(columns) |->
                    LET at == Positions(columns, c)
                    IN  IF Len(at) = 1 THEN data[r][at[1]]
                        ELSE [j \in 1..Len(at) |-> data[r][at[j]]]]]]

\* df.copy()
copy(df) == df

\* a rename that relabels every column
RenameAll(df, old, new) ==
    FromPositional([i \in 1..Len(df.columns) |-> new],
                   [r \in 1..Len(df.rows) |->
                      [i \in 1..Len(df.columns) |-> PosCell(df, r, i)]])

\* df.rename(columns={old: new}): every column labelled old is relabelled new,
\* the cells stay where they are
rename(df, old, new) ==
    FromPositional([i \in 1..Len(df.columns) |->
                      IF df.columns[i] = old THEN new ELSE df.columns[i]],
                   [r \in 1..Len(df.rows) |->
                      [i \in 1..Len(df.columns) |-> PosCell(df, r, i)]])

\* df_cleaned.columns[0] raises IndexError on a table without columns
clean_and_rename_first_column(df) ==
    LET df_cleaned == copy(df)
    IN  IF df_cleaned.columns = <<>>
        THEN Raised("IndexError")
        ELSE Ok(rename(df_cleaned, df_cleaned.columns[1], "battle_id"))

-----------------------------------------------------------------------------
(* The report nodes of the business-understanding pipeline.  The constant    *)
(* texts of the reports are kept by a few of their entries; tipos_datos is   *)
(* not modelled.                                                             *)

DigitChars == <<"0", "1", "2", "3", "4", "5", "6", "7", "8", "9">>

\* str(n) for n >= 0, as characters
RECURSIVE Decimal(_)
Decimal(n) ==
    IF n < 10 THEN <<DigitChars[n + 1]>>
    ELSE Decimal(n \div 10) \o <<DigitChars[(n % 10) + 1]>>

\* the three digits of n < 1000
ThreeDigits(n) ==
    <<DigitChars[(n \div 100) + 1], DigitChars[((n \div 10) % 10) + 1],
      DigitChars[(n % 10) + 1]>>

\* f"{n:,}": the decimal digits of n, in groups of three split by commas
RECURSIVE FormatThousands(_)
FormatThousands(n) ==
    IF n < 1000 THEN Decimal(n)
    ELSE FormatThousands(n \div 1000) \o <<",">> \o ThreeDigits(n % 1000)

objetivos_principales ==
    <<"Identificar las cartas mas utilizadas en los mazos",
      "Analizar las win conditions mas efectivas",
      "Estudiar la distribucion de rarezas en los mazos",
      "Comprender patrones de exito en las batallas">>

\* the rows of pd.concat([combates1, combates2, combates3], ignore_index=True)
TotalRows(tables) == SumSeq([t \in 1..Len(tables) |-> Len(tables[t].rows)])

analyze_business_objectives(tables, master, wc) ==
    [proyecto |-> "Analisis de Estrategias en Clash Royale",
     objetivos_principales |-> objetivos_principales,
     datos_disponibles |->
        [total_batallas |-> TotalRows(tables),
         total_cartas |-> Len(master.rows),
         total_wincons |-> Len(wc.rows),
         periodo_temporal |-> "Diciembre 2020 - Enero 2021"],
     valor_esperado |->
        "Mejorar la comprension de estrategias efectivas para jugadores y desarrolladores"]

\* the objectives of define_ml_objectives, by name
objetivos_ml ==
    <<"Clasificacion de Cartas Populares", "Analisis de Win Conditions",
      "Distribucion de Rarezas">>

define_ml_objectives(business_objectives, current_situation) ==
    [objetivos_ml |-> objetivos_ml]

\* the deliverables of generate_project_plan
entregables ==
    <<"Analisis de objetivos del negocio", "Evaluacion de situacion actual",
      "Objetivos de ML definidos", "Plan del proyecto", "Resumen ejecutivo">>

generate_project_plan(business_objectives, current_situation, ml_objectives) ==
    [entregables |-> entregables,
     cronograma |-> [fase_1 |-> "1-2 dias", fase_2 |-> "3-5 dias", fase_3 |-> "2-3 dias"]]

create_business_summary(business_objectives, current_situation, ml_objectives, plan) ==
    [resumen_ejecutivo |->
        [proyecto |-> business_objectives.proyecto,
         objetivo_principal |-> "Analizar estrategias efectivas en Clash Royale",
         datos_disponibles |->
            <<FormatThousands(current_situation.calidad_datos.total_registros),
              " batallas historicas">>,
         objetivos_clave |-> business_objectives.objetivos_principales,
         valor_esperado |-> business_objectives.valor_esperado]]

-----------------------------------------------------------------------------
(* select_relevant_columns and combine_datasets. *)

\* the whitelist without the loser's tag
relevant_columns_one_tag ==
    << "battle_id",
       "winner.tag",
       "winner.card1.id", "winner.card2.id", "winner.card3.id", "winner.card4.id",
       "winner.card5.id", "winner.card6.id", "winner.card7.id", "winner.card8.id",
       "winner.cards.list",
       "winner.common.count", "winner.rare.count", "winner.epic.count", "winner.legendary.count",
       "loser.card1.id", "loser.card2.id", "loser.card3.id", "loser.card4.id",
       "loser.card5.id", "loser.card6.id", "loser.card7.id", "loser.card8.id",
       "loser.cards.list",
       "loser.common.count", "loser.rare.count", "loser.epic.count", "loser.legendary.count" >>

relevant_columns ==
    << "battle_id",
       "winner.tag",
       "loser.tag",
       "winner.card1.id", "winner.card2.id", "winner.card3.id", "winner.card4.id",
       "winner.card5.id", "winner.card6.id", "winner.card7.id", "winner.card8.id",
       "winner.cards.list",
       "winner.common.count", "winner.rare.count", "winner.epic.count", "winner.legendary.count",
       "loser.card1.id", "loser.card2.id", "loser.card3.id", "loser.card4.id",
       "loser.card5.id", "loser.card6.id", "loser.card7.id", "loser.card8.id",
       "loser.cards.list",
       "loser.common.count", "loser.rare.count", "loser.epic.count", "loser.legendary.count" >>

\* [col for col in relevant_columns if col in dataset.columns]
existing_columns(dataset) ==
    SelectSeq(relevant_columns, LAMBDA col : col \in Range(dataset.columns))

\* a projection that drops the rows with a missing cell
ProjectDropsNullRows(dataset, cols) ==
    [columns |-> cols,
     rows |-> [i \in 1..Len(SelectSeq(dataset.rows,
                                LAMBDA r : \A c \in Range(cols) : r[c] # NaN)) |->
                 [c \in Range(cols) |->
                    SelectSeq(dataset.rows,
                              LAMBDA r : \A d \in Range(cols) : r[d] # NaN)[i][c]]]]

\* dataset[cols].copy(): every row, restricted to cols, in the order of cols
Project(dataset, cols) ==
    [columns |-> cols,
     rows |-> [i \in 1..Len(dataset.rows) |->
                 [c \in Range(cols) |-> dataset.rows[i][c]]]]

\* the loop body of select_relevant_columns for one dataset
SelectOne(dataset) == Project(dataset, existing_columns(dataset))

select_relevant_columns(combates1_cleaned, combates2_cleaned, combates3_cleaned) ==
    [combates1 |-> SelectOne(combates1_cleaned),
     combates2 |-> SelectOne(combates2_cleaned),
     combates3 |-> SelectOne(combates3_cleaned)]

\* the columns of pd.concat(frames): their union, in order of first appearance
RECURSIVE UnionColumns(_, _)
UnionColumns(acc, frames) ==
    IF frames = <<>> THEN acc
    ELSE UnionColumns(
            acc \o SelectSeq(Head(frames).columns, LAMBDA c : c \notin Range(acc)),
            Tail(frames))

\* a frame's rows reindexed to cols: a column the frame lacks is all NaN
Reindex(frame, cols) ==
    [i \in 1..Len(frame.rows) |-> [c \in Range(cols) |-> Cell(frame.rows[i], c)]]

\* rows with every later copy of a row removed
RECURSIVE DropDuplicates(_)
DropDuplicates(rows) ==
    IF rows = <<>> THEN <<>>
    ELSE LET rest == DropDuplicates(SelectSeq(Tail(rows), LAMBDA r : r # Head(rows)))
         IN  <<Head(rows)>> \o rest

Reverse(s) == [i \in 1..Len(s) |-> s[Len(s) + 1 - i]]

\* a concatenation that deduplicates the rows
ConcatDedup(frames) ==
    LET cols == UnionColumns(<<>>, frames)
    IN  [columns |-> cols,
         rows |-> DropDuplicates(
                     Flatten([k \in 1..Len(frames) |-> Reindex(frames[k], cols)]))]

\* a concatenation that takes the frames last to first
ConcatReversed(frames) ==
    LET cols == UnionColumns(<<>>, frames)
    IN  [columns |-> cols,
         rows |-> Flatten([k \in 1..Len(frames) |->
                             Reindex(Reverse(frames)[k], cols)])]

\* pd.concat(frames, ignore_index=True)
Concat(frames) ==
    LET cols == UnionColumns(<<>>, frames)
    IN  [columns |-> cols,
         rows |-> Flatten([k \in 1..Len(frames) |-> Reindex(frames[k], cols)])]

combine_datasets(selected) ==
    Concat(<<selected.combates1, selected.combates2, selected.combates3>>)

-----------------------------------------------------------------------------
(* Column names as text: the analyzers pick columns by substring tests.      *)

\* the characters of a column name
Chars(col) ==
    CASE col = "battle_id" ->
           <<"b", "a", "t", "t", "l", "e", "_", "i", "d">>
      [] col = "arena.id" ->
           <<"a", "r", "e", "n", "a", ".", "i", "d">>
      [] col = "winner.tag" ->
           <<"w", "i", "n", "n", "e", "r", ".", "t", "a", "g">>
      [] col = "loser.tag" ->
           <<"l", "o", "s", "e", "r", ".", "t", "a", "g">>
      [] col = "winner.card1.id" ->
           <<"w", "i", "n", "n", "e", "r", ".", "c", "a", "r", "d", "1", ".", "i", "d">>
      [] col = "winner.card2.id" ->
           <<"w", "i", "n", "n", "e", "r", ".", "c", "a", "r", "d", "2", ".", "i", "d">>
      [] col = "winner.card3.id" ->
           <<"w", "i", "n", "n", "e", "r", ".", "c", "a", "r", "d", "3", ".", "i", "d">>
      [] col = "winner.card4.id" ->
           <<"w", "i", "n", "n", "e", "r", ".", "c", "a", "r", "d", "4", ".", "i", "d">>
      [] col = "winner.card5.id" ->
           <<"w", "i", "n", "n", "e", "r", ".", "c", "a", "r", "d", "5", ".", "i", "d">>
      [] col = "winner.card6.id" ->
           <<"w", "i", "n", "n", "e", "r", ".", "c", "a", "r", "d", "6", ".", "i", "d">>
      [] col = "winner.card7.id" ->
           <<"w", "i", "n", "n", "e", "r", ".", "c", "a", "r", "d", "7", ".", "i", "d">>
      [] col = "winner.card8.id" ->
           <<"w", "i", "n", "n", "e", "r", ".", "c", "a", "r", "d", "8", ".", "i", "d">>
      [] col = "winner.cards.list" ->
           <<"w", "i", "n", "n", "e", "r", ".", "c", "a", "r", "d", "s", ".", "l", "i", "s", "t">>
      [] col = "winner.common.count" ->
           <<"w", "i", "n", "n", "e", "r", ".", "c", "o", "m", "m", "o", "n", ".", "c", "o", "u", "n", "t">>
      [] col = "winner.rare.count" ->
           <<"w", "i", "n", "n", "e", "r", ".", "r", "a", "r", "e", ".", "c", "o", "u", "n", "t">>
      [] col = "winner.epic.count" ->
           <<"w", "i", "n", "n", "e", "r", ".", "e", "p", "i", "c", ".", "c", "o", "u", "n", "t">>
      [] col = "winner.legendary.count" ->
           <<"w", "i", "n", "n", "e", "r", ".", "l", "e", "g", "e", "n", "d", "a", "r", "y", ".", "c", "o", "u", "n", "t">>
      [] col = "loser.card1.id" ->
           <<"l", "o", "s", "e", "r", ".", "c", "a", "r", "d", "1", ".", "i", "d">>
      [] col = "loser.card2.id" ->
           <<"l", "o", "s", "e", "r", ".", "c", "a", "r", "d", "2", ".", "i", "d">>
      [] col = "loser.card3.id" ->
           <<"l", "o", "s", "e", "r", ".", "c", "a", "r", "d", "3", ".", "i", "d">>
      [] col = "loser.card4.id" ->
           <<"l", "o", "s", "e", "r", ".", "c", "a", "r", "d", "4", ".", "i", "d">>
      [] col = "loser.card5.id" ->
           <<"l", "o", "s", "e", "r", ".", "c", "a", "r", "d", "5", ".", "i", "d">>
      [] col = "loser.card6.id" ->
           <<"l", "o", "s", "e", "r", ".", "c", "a", "r", "d", "6", ".", "i", "d">>
      [] col = "loser.card7.id" ->
           <<"l", "o", "s", "e", "r", ".", "c", "a", "r", "d", "7", ".", "i", "d">>
      [] col = "loser.card8.id" ->
           <<"l", "o", "s", "e", "r", ".", "c", "a", "r", "d", "8", ".", "i", "d">>
      [] col = "loser.cards.list" ->
           <<"l", "o", "s", "e", "r", ".", "c", "a", "r", "d", "s", ".", "l", "i", "s", "t">>
      [] col = "loser.common.count" ->
           <<"l", "o", "s", "e", "r", ".", "c", "o", "m", "m", "o", "n", ".", "c", "o", "u", "n", "t">>
      [] col = "loser.rare.count" ->
           <<"l", "o", "s", "e", "r", ".", "r", "a", "r", "e", ".", "c", "o", "u", "n", "t">>
      [] col = "loser.epic.count" ->
           <<"l", "o", "s", "e", "r", ".", "e", "p", "i", "c", ".", "c", "o", "u", "n", "t">>
      [] col = "loser.legendary.count" ->
           <<"l", "o", "s", "e", "r", ".", "l", "e", "g", "e", "n", "d", "a", "r", "y", ".", "c", "o", "u", "n", "t">>
      [] col = "Winner.card1.id" ->
           <<"W", "i", "n", "n", "e", "r", ".", "c", "a", "r", "d", "1", ".", "i", "d">>
      [] col = "team.card1.id" ->
           <<"t", "e", "a", "m", ".", "c", "a", "r", "d", "1", ".", "i", "d">>

UpperCase ==
    <<"A", "B", "C", "D", "E", "F", "G", "H", "I", "J", "K", "L", "M", "N", "O", "P", "Q", "R", "S", "T", "U", "V", "W", "X", "Y", "Z">>
LowerCase ==
    <<"a", "b", "c", "d", "e", "f", "g", "h", "i", "j", "k", "l", "m", "n", "o", "p", "q", "r", "s", "t", "u", "v", "w", "x", "y", "z">>

\* str.lower(), character by character
LowerChar(ch) ==
    IF \E i \in 1..Len(UpperCase) : UpperCase[i] = ch
    THEN LowerCase[CHOOSE i \in 1..Len(UpperCase) : UpperCase[i] = ch]
    ELSE ch

lower(s) == [i \in 1..Len(s) |-> LowerChar(s[i])]

\* sub in s
Contains(s, sub) ==
    \E i \in 0..(Len(s) - Len(sub)) : SubSeq(s, i + 1, i + Len(sub)) = sub

\* the column names the battle tables of the model can have
ColumnNames ==
    {"battle_id", "arena.id", "winner.tag", "loser.tag",
     "winner.card1.id", "winner.card2.id", "winner.card3.id", "winner.card4.id",
     "winner.card5.id", "winner.card6.id", "winner.card7.id", "winner.card8.id",
     "winner.cards.list",
     "winner.common.count", "winner.rare.count", "winner.epic.count",
     "winner.legendary.count",
     "loser.card1.id", "loser.card2.id", "loser.card3.id", "loser.card4.id",
     "loser.card5.id", "loser.card6.id", "loser.card7.id", "loser.card8.id",
     "loser.cards.list",
     "loser.common.count", "loser.rare.count", "loser.epic.count",
     "loser.legendary.count", "Winner.card1.id", "team.card1.id"}

\* 'card' in col.lower() and 'id' in col.lower()
CardColumnNames ==
    {col \in ColumnNames :
        /\ Contains(lower(Chars(col)), <<"c", "a", "r", "d">>)
        /\ Contains(lower(Chars(col)), <<"i", "d">>)}

IsCardColumn(col) == col \in CardColumnNames

\* 'winner' in col
WinnerColumnNames ==
    {col \in ColumnNames : Contains(Chars(col), <<"w", "i", "n", "n", "e", "r">>)}

IsWinnerColumn(col) == col \in WinnerColumnNames

\* 'loser' in col
LoserColumnNames ==
    {col \in ColumnNames : Contains(Chars(col), <<"l", "o", "s", "e", "r">>)}

IsLoserColumn(col) == col \in LoserColumnNames

-----------------------------------------------------------------------------
(* Counting: collections.Counter, most_common, round.                        *)

\* N of the top-N reports: most_common(20)
TopN == 20

\* how many top cards the summary names: [:5]
TopSummary == 5

\* all_combates[col].tolist(): the cells of column col, row by row
ColumnValues(t, col) == [i \in 1..Len(t.rows) |-> Cell(t.rows[i], col)]

\* a dropna that drops nothing
KeepNa(values) == values

\* Series.dropna()
dropna(values) == SelectSeq(values, LAMBDA v : v # NaN)

\* the cells of the columns cols, column by column and row by row, NaN dropped
FlattenColumns(t, cols) ==
    Flatten([k \in 1..Len(cols) |-> dropna(ColumnValues(t, cols[k]))])

\* Counter(items): <<key, count>> pairs in order of first insertion
RECURSIVE CountInto(_, _)
CountInto(acc, items) ==
    IF items = <<>> THEN acc
    ELSE LET x == Head(items)
             at == {i \in 1..Len(acc) : acc[i][1] = x}
         IN  IF at = {}
             THEN CountInto(Append(acc, <<x, 1>>), Tail(items))
             ELSE LET i == CHOOSE j \in at : TRUE
                  IN  CountInto([acc EXCEPT ![i] = <<x, acc[i][2] + 1>>], Tail(items))

Counter(items) == CountInto(<<>>, items)

\* a sort by decreasing count in which, of equal counts, the later inserted
\* comes first
SortedTiesReversed(pairs) ==
    LET rank(i) ==
            1 + Cardinality({j \in 1..Len(pairs) :
                                \/ pairs[j][2] > pairs[i][2]
                                \/ pairs[j][2] = pairs[i][2] /\ j > i})
    IN  [k \in 1..Len(pairs) |-> pairs[CHOOSE i \in 1..Len(pairs) : rank(i) = k]]

\* sorted(pairs, key=count, reverse=True): stable, so equal counts keep their
\* insertion order
RECURSIVE SortedByCount(_)
SortedByCount(pairs) ==
    IF pairs = <<>> THEN <<>>
    ELSE LET rest == SortedByCount(SubSeq(pairs, 1, Len(pairs) - 1))
             x == pairs[Len(pairs)]
             before == SelectSeq(rest, LAMBDA p : p[2] >= x[2])
             after == SelectSeq(rest, LAMBDA p : p[2] < x[2])
         IN  before \o <<x>> \o after

FirstN(s, n) == SubSeq(s, 1, IF Len(s) < n THEN Len(s) ELSE n)

\* the first n keys counted, whatever their counts
FirstInserted(counter, n) == FirstN(counter, n)

\* Counter.most_common(n)
most_common(counter, n) == FirstN(SortedByCount(counter), n)

\* num / den rounded up
RoundUp(num, den) == (num + den - 1) \div den

\* round(num / den) for num >= 0, den > 0: to nearest, a tie to even (the
\* ties within the model's bounds are binary fractions, which Python's round
\* resolves so)
RoundHalfEven(num, den) ==
    LET q == num \div den
        r == num % den
    IN  IF 2 * r < den THEN q
        ELSE IF 2 * r > den THEN q + 1
        ELSE IF q % 2 = 0 THEN q ELSE q + 1

\* round((count / total) * 100, 2), in hundredths of a percent
Percentage(count, total) == RoundHalfEven(count * 10000, total)

\* round(a / b, 2), in hundredths
Round2(a, b) == RoundHalfEven(a * 100, b)


-----------------------------------------------------------------------------
(* validate_combined_dataset and create_preparation_summary.  The report's   *)
(* data_types and memory_usage entries are not modelled.                     *)

\* 'winner' in col.lower()
WinnerLowerColumnNames ==
    {col \in ColumnNames : Contains(lower(Chars(col)), <<"w", "i", "n", "n", "e", "r">>)}

\* 'loser' in col.lower()
LoserLowerColumnNames ==
    {col \in ColumnNames : Contains(lower(Chars(col)), <<"l", "o", "s", "e", "r">>)}

\* the columns validate_combined_dataset reads by name
required_columns == <<"battle_id", "winner.tag", "loser.tag">>

\* combined_dataset[col] raises KeyError for a column the table lacks
ValidateKeyError(combined) ==
    \E k \in 1..Len(required_columns) : required_columns[k] \notin Range(combined.columns)

\* combined_dataset.isnull().sum().to_dict()
missing_values(combined) ==
    [c \in Range(combined.columns) |->
        Len(SelectSeq(ColumnValues(combined, c), LAMBDA v : v = NaN))]

\* int(combined_dataset.duplicated().sum()): the rows equal to an earlier row
duplicate_records(combined) == NRows(combined) - Cardinality(Range(combined.rows))

\* combined_dataset[col].nunique(): the distinct non-null values
nunique(combined, col) == Cardinality(Range(dropna(ColumnValues(combined, col))))

\* a completeness flag that asks for one non-null cell only
SomeNotNull(combined, col) ==
    \E r \in 1..NRows(combined) : combined.rows[r][col] # NaN

\* not combined_dataset[col].isnull().any()
NoneNull(combined, col) ==
    \A r \in 1..NRows(combined) : combined.rows[r][col] # NaN

validate_combined_dataset(combined) ==
    LET card_columns == SelectSeq(combined.columns, IsCardColumn)
        winner_card_columns ==
            SelectSeq(card_columns, LAMBDA col : col \in WinnerLowerColumnNames)
        loser_card_columns ==
            SelectSeq(card_columns, LAMBDA col : col \in LoserLowerColumnNames)
    IN  IF ValidateKeyError(combined)
        THEN Raised("KeyError")
        ELSE Ok([total_records |-> NRows(combined),
                 total_columns |-> Len(combined.columns),
                 missing_values |-> missing_values(combined),
                 duplicate_records |-> duplicate_records(combined),
                 card_analysis |->
                    [total_card_columns |-> Len(card_columns),
                     winner_card_columns |-> Len(winner_card_columns),
                     loser_card_columns |-> Len(loser_card_columns),
                     winner_card_columns_names |-> winner_card_columns,
                     loser_card_columns_names |-> loser_card_columns],
                 unique_values |->
                    [unique_battle_ids |-> nunique(combined, "battle_id"),
                     unique_winner_tags |-> nunique(combined, "winner.tag"),
                     unique_loser_tags |-> nunique(combined, "loser.tag")],
                 data_integrity |->
                    [battle_ids_complete |-> NoneNull(combined, "battle_id"),
                     winner_tags_complete |-> NoneNull(combined, "winner.tag"),
                     loser_tags_complete |-> NoneNull(combined, "loser.tag")]])

\* sum(validation_results['missing_values'].values())
missing_values_summary(missing) ==
    LET cols == DOMAIN missing
        Sum[S \in SUBSET cols] ==
            IF S = {} THEN 0
            ELSE LET c == CHOOSE x \in S : TRUE
                 IN  missing[c] + Sum[S \ {c}]
    IN  Sum[cols]

create_preparation_summary(validation_results) ==
    [preparation_overview |->
        [phase |-> "Fase 3 - Preparacion de Datos",
         total_records_combined |-> validation_results.total_records,
         total_columns_selected |-> validation_results.total_columns],
     data_quality |->
        [duplicate_records |-> validation_results.duplicate_records,
         missing_values_summary |->
            missing_values_summary(validation_results.missing_values),
         data_integrity_checks |-> validation_results.data_integrity],
     selected_features |->
        [card_columns_total |-> validation_results.card_analysis.total_card_columns,
         winner_card_columns |-> validation_results.card_analysis.winner_card_columns,
         loser_card_columns |-> validation_results.card_analysis.loser_card_columns,
         count_columns |-> <<"common.count", "rare.count", "epic.count",
                             "legendary.count">>],
     dataset_statistics |->
        [unique_battle_ids |-> validation_results.unique_values.unique_battle_ids,
         unique_winner_tags |-> validation_results.unique_values.unique_winner_tags,
         unique_loser_tags |-> validation_results.unique_values.unique_loser_tags]]

\* evaluate_current_situation: the sizes of the three tables and of their
\* concatenation, and its null counts
evaluate_current_situation(tables) ==
    LET all == Concat(tables)
    IN  [datasets_disponibles |->
            [combates_12272020 |->
                [registros |-> NRows(tables[1]), columnas |-> Len(tables[1].columns)],
             combates_12312020 |->
                [registros |-> NRows(tables[2]), columnas |-> Len(tables[2].columns)],
             combates_01042021 |->
                [registros |-> NRows(tables[3]), columnas |-> Len(tables[3].columns)]],
         calidad_datos |->
            [total_registros |-> NRows(all),
             total_columnas |-> Len(all.columns),
             valores_faltantes |-> missing_values(all)]]

-----------------------------------------------------------------------------
(* analyze_most_used_cards and analyze_win_conditions_usage.                 *)

\* pd.concat([combates1_cleaned, combates2_cleaned, combates3_cleaned],
\*           ignore_index=True)
all_combates(tables) == Concat(tables)

\* a lookup where the first row of a duplicated id wins
DictGetFirst(table, idcol, namecol, key, default) ==
    LET at == {i \in 1..Len(table.rows) : table.rows[i][idcol] = key}
    IN  IF at = {} THEN default
        ELSE table.rows[CHOOSE i \in at : \A j \in at : j >= i][namecol]

\* dict(zip(table[idcol], table[namecol])).get(key, default): the name in the
\* last row whose id is key (a later row overwrites an earlier one)
DictGet(table, idcol, namecol, key, default) ==
    LET at == {i \in 1..Len(table.rows) : table.rows[i][idcol] = key}
    IN  IF at = {} THEN default
        ELSE table.rows[CHOOSE i \in at : \A j \in at : j <= i][namecol]

\* whether card_id_to_name is filled: the card master list has both columns
HasCardMapping(master) ==
    /\ "team.card1.id" \in Range(master.columns)
    /\ "team.card1.name" \in Range(master.columns)

\* card_id_to_name.get(key, default)
CardNameGet(master, key, default) ==
    IF HasCardMapping(master)
    THEN DictGet(master, "team.card1.id", "team.card1.name", key, default)
    ELSE default

\* card_id_to_name.get(card_id, f"Carta_{card_id}")
CardName(master, card_id) == CardNameGet(master, card_id, <<"Carta_", card_id>>)

\* one entry of top_cards / of a win-condition report; percentage is in
\* hundredths of a percent
Entry(id, name, count, percentage) ==
    [id |-> id, card_name |-> name, count |-> count, percentage |-> percentage]

analyze_most_used_cards(tables, master) ==
    LET all == all_combates(tables)
        card_columns == SelectSeq(all.columns, IsCardColumn)
        all_cards == FlattenColumns(all, card_columns)
        card_frequency == Counter(all_cards)
        total_card_uses == Len(all_cards)
        unique_cards == Len(card_frequency)
        top_cards == most_common(card_frequency, TopN)
        top_cards_with_percentage ==
            [k \in 1..Len(top_cards) |->
                Entry(top_cards[k][1], CardName(master, top_cards[k][1]),
                      top_cards[k][2], Percentage(top_cards[k][2], total_card_uses))]
    IN  IF card_columns = <<>>
        THEN Ok([error |-> "No se encontraron columnas de cartas"])
        ELSE IF unique_cards = 0
        THEN Raised("ZeroDivisionError")
        ELSE Ok([card_usage_stats |->
                    [total_card_uses |-> total_card_uses,
                     unique_cards |-> unique_cards,
                     average_uses_per_card |-> Round2(total_card_uses, unique_cards)],
                 top_cards |-> top_cards_with_percentage,
                 card_columns_found |-> card_columns,
                 card_mapping_used |->
                    HasCardMapping(master) /\ Len(master.rows) > 0])

\* win_condition_ids: set(wincons['card_id'].tolist()), empty without the column
win_condition_ids(wc) ==
    IF "card_id" \in Range(wc.columns)
    THEN {wc.rows[i]["card_id"] : i \in 1..Len(wc.rows)}
    ELSE {}

\* wc_id_to_name.get(key, default)
WcNameGet(wc, key, default) ==
    IF "card_id" \in Range(wc.columns) /\ "card_name" \in Range(wc.columns)
    THEN DictGet(wc, "card_id", "card_name", key, default)
    ELSE default

\* wc_id_to_name.get(wc_id, card_id_to_name.get(wc_id, f"WinCondition_{wc_id}"))
WcName(wc, master, wc_id) ==
    WcNameGet(wc, wc_id, CardNameGet(master, wc_id, <<"WinCondition_", wc_id>>))

\* a side's multiset with the membership test left out: every card of the
\* side's columns
SideCardsUnfiltered(all, side_columns, ids) == FlattenColumns(all, side_columns)

\* the win conditions in the card columns of one side, column by column:
\* [card for card in cards_in_column if card in win_condition_ids]
SideWinConditions(all, side_columns, ids) ==
    SelectSeq(FlattenColumns(all, side_columns), LAMBDA card : card \in ids)

\* percentage = (count / total) * 100 if total > 0 else 0
GuardedPercentage(count, total) ==
    IF total > 0 THEN Percentage(count, total) ELSE 0

\* a top-N report of the multiset items, with names and percentages
WcReport(items, wc, master) ==
    LET top == most_common(Counter(items), TopN)
    IN  [k \in 1..Len(top) |->
            Entry(top[k][1], WcName(wc, master, top[k][1]), top[k][2],
                  GuardedPercentage(top[k][2], Len(items)))]

analyze_win_conditions_usage(tables, wc, master) ==
    LET all == all_combates(tables)
        ids == win_condition_ids(wc)
        card_columns == SelectSeq(all.columns, IsCardColumn)
        winner_win_conditions ==
            SideWinConditions(all, SelectSeq(card_columns, IsWinnerColumn), ids)
        loser_win_conditions ==
            SideWinConditions(all, SelectSeq(card_columns, IsLoserColumn), ids)
        all_wcs == winner_win_conditions \o loser_win_conditions
    IN  IF card_columns = <<>>
        THEN Ok([error |-> "No se encontraron columnas de cartas"])
        ELSE Ok([winner_win_conditions |->
                    WcReport(winner_win_conditions, wc, master),
                 loser_win_conditions |->
                    WcReport(loser_win_conditions, wc, master),
                 overall_win_conditions |->
                    WcReport(all_wcs, wc, master),
                 usage_stats |->
                    [total_winner_wc_uses |-> Len(winner_win_conditions),
                     total_loser_wc_uses |-> Len(loser_win_conditions),
                     total_wc_uses |-> Len(all_wcs),
                     unique_win_conditions |-> Len(Counter(all_wcs)),
                     total_win_conditions_available |-> Cardinality(ids)]])

-----------------------------------------------------------------------------
(* analyze_rarity_distributions and generate_eda_summary.                    *)

winner_rarity_cols ==
    <<"winner.common.count", "winner.rare.count", "winner.epic.count",
      "winner.legendary.count">>

loser_rarity_cols ==
    <<"loser.common.count", "loser.rare.count", "loser.epic.count",
      "loser.legendary.count">>

Rarities == <<"common", "rare", "epic", "legendary">>

\* col.split('.')[1] of a rarity column
rarity_type(col) ==
    CHOOSE r \in Range(Rarities) :
        \E k \in 1..Len(Rarities) :
            Rarities[k] = r /\ col \in {winner_rarity_cols[k], loser_rarity_cols[k]}

Min(S) == CHOOSE x \in S : \A y \in S : x <= y
Max(S) == CHOOSE x \in S : \A y \in S : x >= y

\* the statistics of one column, over its non-null cells: the mean as the
\* pair <<sum, count>>, the integer min and max (median, std and the
\* histogram are not modelled)
ColumnStats(all, col) ==
    LET values == dropna(ColumnValues(all, col))
    IN  [mean |-> <<SumSeq(values), Len(values)>>,
         min |-> Min(Range(values)),
         max |-> Max(Range(values))]

\* int(all_combates[col].min()) raises ValueError on NaN: a column without
\* any non-null cell
StatsRaise(all, cols) ==
    \E k \in 1..Len(cols) :
        /\ cols[k] \in Range(all.columns)
        /\ dropna(ColumnValues(all, cols[k])) = <<>>

\* winner_rarity_stats / loser_rarity_stats: rarity -> statistics, for the
\* columns of cols that the union has
RarityStats(all, cols) ==
    [r \in {rarity_type(c) : c \in Range(cols) \cap Range(all.columns)} |->
        ColumnStats(all, CHOOSE c \in Range(cols) \cap Range(all.columns) :
                            rarity_type(c) = r)]

\* a comparison that takes a tier when either of its two columns is there
ComparisonEitherPresent(all) ==
    LET present == SelectSeq([k \in 1..Len(Rarities) |-> k],
                        LAMBDA k : \/ winner_rarity_cols[k] \in Range(all.columns)
                                   \/ loser_rarity_cols[k] \in Range(all.columns))
    IN  [j \in 1..Len(present) |->
            LET w == <<SumSeq(dropna(ColumnValues(all, winner_rarity_cols[present[j]]))),
                       Len(dropna(ColumnValues(all, winner_rarity_cols[present[j]])))>>
                l == <<SumSeq(dropna(ColumnValues(all, loser_rarity_cols[present[j]]))),
                       Len(dropna(ColumnValues(all, loser_rarity_cols[present[j]])))>>
            IN  [rarity |-> Rarities[present[j]],
                 winner_avg |-> w,
                 loser_avg |-> l,
                 difference |-> <<w[1] * l[2] - l[1] * w[2], w[2] * l[2]>>]]

\* comparison_stats, in insertion order; an average is <<sum, count>> and the
\* difference winner_avg - loser_avg the fraction <<numerator, denominator>>
comparison_stats(all) ==
    LET present == SelectSeq([k \in 1..Len(Rarities) |-> k],
                        LAMBDA k : /\ winner_rarity_cols[k] \in Range(all.columns)
                                   /\ loser_rarity_cols[k] \in Range(all.columns))
    IN  [j \in 1..Len(present) |->
            LET w == ColumnStats(all, winner_rarity_cols[present[j]]).mean
                l == ColumnStats(all, loser_rarity_cols[present[j]]).mean
            IN  [rarity |-> Rarities[present[j]],
                 winner_avg |-> w,
                 loser_avg |-> l,
                 difference |-> <<w[1] * l[2] - l[1] * w[2], w[2] * l[2]>>]]

analyze_rarity_distributions(tables) ==
    LET all == all_combates(tables)
    IN  IF StatsRaise(all, winner_rarity_cols) \/ StatsRaise(all, loser_rarity_cols)
        THEN Raised("ValueError")
        ELSE Ok([winner_rarity_distribution |-> RarityStats(all, winner_rarity_cols),
                 loser_rarity_distribution |-> RarityStats(all, loser_rarity_cols),
                 winner_vs_loser_comparison |-> comparison_stats(all),
                 total_records_analyzed |-> NRows(all)])

\* 'key' in d, for a dictionary d modelled as a record
HasKey(d, key) == key \in DOMAIN d

\* most_used_cards['card_usage_stats']['unique_cards'] if present, else 0
UniqueCardsOrZero(most_used_cards) ==
    IF HasKey(most_used_cards, "card_usage_stats")
    THEN most_used_cards.card_usage_stats.unique_cards
    ELSE 0

\* win_conditions_usage['usage_stats']['unique_win_conditions'] if present, else 0
UniqueWinConditionsOrZero(win_conditions_usage) ==
    IF HasKey(win_conditions_usage, "usage_stats")
    THEN win_conditions_usage.usage_stats.unique_win_conditions
    ELSE 0

\* the names of the first five top cards, or [] without top_cards
most_popular_cards(most_used_cards) ==
    IF HasKey(most_used_cards, "top_cards")
    THEN [k \in 1..Len(FirstN(most_used_cards.top_cards, TopSummary)) |->
            most_used_cards.top_cards[k].card_name]
    ELSE <<>>

\* an insight on the last entry of a report
LastInsight(result, key, label) ==
    IF HasKey(result, key) /\ result[key] # <<>>
    THEN << <<label, result[key][Len(result[key])].card_name,
              result[key][Len(result[key])].percentage>> >>
    ELSE <<>>

\* the insight on the first entry of a report, when the report is there and
\* not empty
TopInsight(result, key, label) ==
    IF HasKey(result, key) /\ result[key] # <<>>
    THEN << <<label, result[key][1].card_name, result[key][1].percentage>> >>
    ELSE <<>>

\* an insight on every rarity, a difference of zero counted to the winners
RarityInsightAlways(stats) ==
    IF stats.difference[1] >= 0
    THEN << <<"Ganadores usan mas cartas", stats.rarity, stats.difference>> >>
    ELSE << <<"Perdedores usan mas cartas", stats.rarity,
              <<0 - stats.difference[1], stats.difference[2]>> >> >>

\* the insight on one rarity, from the sign of its difference
RarityInsight(stats) ==
    IF stats.difference[1] > 0
    THEN << <<"Ganadores usan mas cartas", stats.rarity, stats.difference>> >>
    ELSE IF stats.difference[1] < 0
    THEN << <<"Perdedores usan mas cartas", stats.rarity,
              <<0 - stats.difference[1], stats.difference[2]>> >> >>
    ELSE <<>>

RarityInsights(rarity_distributions) ==
    IF HasKey(rarity_distributions, "winner_vs_loser_comparison")
    THEN Flatten([k \in 1..Len(rarity_distributions.winner_vs_loser_comparison) |->
                    RarityInsight(rarity_distributions.winner_vs_loser_comparison[k])])
    ELSE <<>>

\* a summary that reads the analyzers' statistics without a presence check
SummaryKeyErrorUnguarded(rarity_distributions, most_used_cards, win_conditions_usage) ==
    \/ ~HasKey(rarity_distributions, "total_records_analyzed")
    \/ ~HasKey(most_used_cards, "card_usage_stats")
    \/ ~HasKey(win_conditions_usage, "usage_stats")

\* the dictionary accesses of generate_eda_summary that no presence check
\* guards: a missing key raises KeyError
SummaryKeyError(rarity_distributions, most_used_cards, win_conditions_usage) ==
    ~HasKey(rarity_distributions, "total_records_analyzed")

SummaryOf(rarity_distributions, most_used_cards, win_conditions_usage) ==
    [eda_overview |->
        [dataset_size |-> rarity_distributions.total_records_analyzed],
     key_findings |->
        [most_popular_cards |-> most_popular_cards(most_used_cards),
         total_unique_cards |-> UniqueCardsOrZero(most_used_cards),
         total_win_conditions |-> UniqueWinConditionsOrZero(win_conditions_usage)],
     insights |->
        << <<"Dataset contiene", rarity_distributions.total_records_analyzed>>,
           <<"Se identificaron", UniqueCardsOrZero(most_used_cards)>>,
           <<"Total de win conditions analizadas",
             UniqueWinConditionsOrZero(win_conditions_usage)>> >>
        \o TopInsight(most_used_cards, "top_cards", "Carta mas popular")
        \o TopInsight(win_conditions_usage, "overall_win_conditions",
                      "Win condition mas usada")
        \o RarityInsights(rarity_distributions)]

generate_eda_summary(rarity_distributions, most_used_cards, win_conditions_usage) ==
    IF SummaryKeyError(rarity_distributions, most_used_cards, win_conditions_usage)
    THEN Raised("KeyError")
    ELSE Ok(SummaryOf(rarity_distributions, most_used_cards, win_conditions_usage))

-----------------------------------------------------------------------------
(* Input tables.  A row is drawn by kind: the kind gives the battle id, the  *)
(* two player tags and the card in the winner and in the loser card slots.   *)

RowKind(bid, wtag, ltag, w, l) ==
    [bid |-> bid, wtag |-> wtag, ltag |-> ltag, w |-> w, l |-> l,
     wrare |-> 1, lrare |-> 1, wepic |-> 0, lepic |-> 0]

\* a battle whose decks hold wrare and lrare rare cards, wepic and lepic epic
\* cards (winner's and loser's)
RarityKind(wrare, lrare, wepic, lepic) ==
    [bid |-> 1, wtag |-> 5, ltag |-> 6, w |-> 1, l |-> 2,
     wrare |-> wrare, lrare |-> lrare, wepic |-> wepic, lepic |-> lepic]

\* the cell a row of kind k holds under column col
CellOf(k, col) ==
    CASE col = "battle_id" -> k.bid
      [] col = "winner.tag" -> k.wtag
      [] col = "loser.tag" -> k.ltag
      [] col \in {"winner.card1.id", "winner.card2.id", "Winner.card1.id",
                   "team.card1.id"} -> k.w
      [] col \in {"loser.card1.id", "loser.card2.id"} -> k.l
      [] col = "winner.rare.count" -> k.wrare
      [] col = "loser.rare.count" -> k.lrare
      [] col = "winner.epic.count" -> k.wepic
      [] col = "loser.epic.count" -> k.lepic
      [] OTHER -> k.bid

MkRow(cols, k) == [c \in Range(cols) |-> CellOf(k, c)]

\* a table with columns cols and one row per kind of the sequence kinds
MkTable(cols, kinds) ==
    [columns |-> cols, rows |-> [i \in 1..Len(kinds) |-> MkRow(cols, kinds[i])]]

\* all sequences over S of length exactly n
SeqsOfLen(S, n) == [1..n -> S]

\* the triples <<n1, n2, n3>> of row counts with n1 + n2 + n3 <= max
RowCounts(max) ==
    {c \in (0..max) \X (0..max) \X (0..max) : c[1] + c[2] + c[3] <= max}

\* schemas of normalized battle tables (leading column battle_id)
FullColumns ==
    <<"battle_id", "loser.tag", "winner.tag", "arena.id",
      "winner.card1.id", "loser.card1.id">>
OnlyBattleId == <<"battle_id", "arena.id">>
WinnerOnly == <<"battle_id", "winner.tag", "winner.card1.id">>

\* every whitelisted column and one more
WideColumns == relevant_columns \o <<"arena.id">>

PrepSchemas ==
    { <<FullColumns, FullColumns, FullColumns>>,
      <<WideColumns, WinnerOnly, OnlyBattleId>>,
      <<FullColumns, OnlyBattleId, WinnerOnly>>,
      <<WinnerOnly, FullColumns, OnlyBattleId>>,
      <<WinnerOnly, WinnerOnly, OnlyBattleId>>,
      <<OnlyBattleId, OnlyBattleId, OnlyBattleId>> }

PrepKinds ==
    { RowKind(1, 5, 6, 7, 8),
      RowKind(2, 5, NaN, 7, NaN),
      RowKind(2, NaN, 6, NaN, 7),
      RowKind(NaN, 5, 5, 8, 8) }

EmptyTable == [columns |-> <<>>, rows |-> <<>>]

\* the artifacts no node has produced yet
NothingProduced ==
    /\ previous_run = None
    /\ business_objectives_analysis = None
    /\ current_situation_evaluation = None
    /\ ml_objectives_definition = None
    /\ project_plan = None
    /\ business_understanding_summary = None
    /\ dataset_validation = None
    /\ data_preparation_summary = None
    /\ selected_datasets = None
    /\ combined_dataset = None
    /\ rarity_distributions_analysis = None
    /\ most_used_cards_analysis = None
    /\ win_conditions_usage_analysis = None
    /\ eda_summary = None

PrepInit ==
    /\ \E schema \in PrepSchemas : \E n \in RowCounts(MaxPrepRows) :
         \E k1 \in SeqsOfLen(PrepKinds, n[1]) :
         \E k2 \in SeqsOfLen(PrepKinds, n[2]) :
         \E k3 \in SeqsOfLen(PrepKinds, n[3]) :
            combates_cleaned = << MkTable(schema[1], k1),
                                  MkTable(schema[2], k2),
                                  MkTable(schema[3], k3) >>
    /\ combates = combates_cleaned
    /\ card_master_list = EmptyTable
    /\ wincons = EmptyTable
    /\ NothingProduced

-----------------------------------------------------------------------------
(* The data-preparation pipeline: each node runs once, when its input is     *)
(* there.                                                                    *)

\* whether a slot of combates_cleaned holds a table / the mark of a node that
\* raised
IsTable(x) == "columns" \in DOMAIN x
IsRaised(x) == "exc" \in DOMAIN x

\* the three cleaned tables are there
InputsCleaned == \A i \in 1..3 : IsTable(combates_cleaned[i])

\* a node that raises aborts the run: no node runs after it
RunAlive ==
    /\ \A i \in 1..3 : ~IsRaised(combates_cleaned[i])
    /\ \A a \in {business_objectives_analysis, current_situation_evaluation,
                 ml_objectives_definition, project_plan,
                 business_understanding_summary, selected_datasets,
                 combined_dataset, dataset_validation, data_preparation_summary,
                 rarity_distributions_analysis, most_used_cards_analysis,
                 win_conditions_usage_analysis, eda_summary} : a.st # "raised"

\* the node can run: no node has raised, what it reads is there, it has not
\* run yet
CanSelectRelevantColumns ==
    /\ RunAlive
    /\ InputsCleaned
    /\ selected_datasets = None

SelectRelevantColumns ==
    /\ CanSelectRelevantColumns
    /\ selected_datasets' =
          Ok(select_relevant_columns(combates_cleaned[1], combates_cleaned[2],
                                     combates_cleaned[3]))
    /\ UNCHANGED <<previous_run, combates, business_artifacts, validation_artifacts,
                   combates_cleaned, card_master_list, wincons, combined_dataset,
                   rarity_distributions_analysis, most_used_cards_analysis,
                   win_conditions_usage_analysis, eda_summary>>

CanCombineDatasets ==
    /\ RunAlive
    /\ selected_datasets.st = "ok"
    /\ combined_dataset = None

CombineDatasets ==
    /\ CanCombineDatasets
    /\ combined_dataset' = Ok(combine_datasets(selected_datasets.val))
    /\ UNCHANGED <<previous_run, combates, business_artifacts, validation_artifacts,
                   combates_cleaned, card_master_list, wincons, selected_datasets,
                   rarity_distributions_analysis, most_used_cards_analysis,
                   win_conditions_usage_analysis, eda_summary>>

CanValidateCombinedDataset ==
    /\ RunAlive
    /\ combined_dataset.st = "ok"
    /\ dataset_validation = None

ValidateCombinedDataset ==
    /\ CanValidateCombinedDataset
    /\ dataset_validation' = validate_combined_dataset(combined_dataset.val)
    /\ UNCHANGED <<previous_run, combates, business_artifacts, combates_cleaned, card_master_list,
                   wincons, selected_datasets, combined_dataset,
                   data_preparation_summary, rarity_distributions_analysis,
                   most_used_cards_analysis, win_conditions_usage_analysis,
                   eda_summary>>

CanCreatePreparationSummary ==
    /\ RunAlive
    /\ dataset_validation.st = "ok"
    /\ data_preparation_summary = None

CreatePreparationSummary ==
    /\ CanCreatePreparationSummary
    /\ data_preparation_summary' = Ok(create_preparation_summary(dataset_validation.val))
    /\ UNCHANGED <<previous_run, combates, business_artifacts, combates_cleaned, card_master_list,
                   wincons, selected_datasets, combined_dataset, dataset_validation,
                   rarity_distributions_analysis, most_used_cards_analysis,
                   win_conditions_usage_analysis, eda_summary>>

PrepNext ==
    \/ SelectRelevantColumns
    \/ CombineDatasets
    \/ ValidateCombinedDataset
    \/ CreatePreparationSummary

SpecPrep == PrepInit /\ [][PrepNext]_vars

-----------------------------------------------------------------------------
(* The cleaning nodes of the business-understanding pipeline: clean_combates1, *)
(* clean_combates2 and clean_combates3, one per raw table, in any order.       *)

\* most rows the three raw tables hold together in a cleaning run
MaxCleanRows == 2

\* schemas of raw tables: an unnamed leading column / a leading column
\* already named battle_id / a battle_id column past the leading one / one
\* column / no column
RawTypical == <<"Unnamed: 0", "winner.tag", "loser.tag", "winner.card1.id">>
RawNamed == <<"battle_id", "winner.tag">>
RawWithBattleId == <<"Unnamed: 0", "loser.tag", "battle_id">>
RawSingle == <<"Unnamed: 0">>
RawNoColumns == <<>>

RawSchemas ==
    { <<RawTypical, RawTypical, RawTypical>>,
      <<RawTypical, RawNamed, RawSingle>>,
      <<RawWithBattleId, RawTypical, RawNamed>>,
      <<RawSingle, RawWithBattleId, RawWithBattleId>>,
      <<RawTypical, RawNoColumns, RawTypical>>,
      <<RawNoColumns, RawNoColumns, RawNamed>> }

\* the cleaned tables no node has written yet
NothingCleaned == combates_cleaned = <<None, None, None>>

CleanInit ==
    /\ \E schema \in RawSchemas : \E n \in RowCounts(MaxCleanRows) :
         \E k1 \in SeqsOfLen(PrepKinds, n[1]) :
         \E k2 \in SeqsOfLen(PrepKinds, n[2]) :
         \E k3 \in SeqsOfLen(PrepKinds, n[3]) :
            combates = << MkTable(schema[1], k1),
                          MkTable(schema[2], k2),
                          MkTable(schema[3], k3) >>
    /\ NothingCleaned
    /\ card_master_list = EmptyTable
    /\ wincons = EmptyTable
    /\ NothingProduced

\* a node's result as the slot of combates_cleaned keeps it: the table
\* itself, or the mark of the raise
Stored(result) == IF result.st = "ok" THEN result.val ELSE result

\* a cleaning that renames the columns of the table it was given
InputRenamedInPlace(df) == Stored(clean_and_rename_first_column(df))

\* the table a cleaning node was given, after the node ran: the node renames
\* a copy
InputAfterClean(df) == df

CanCleanCombates(i) ==
    /\ RunAlive
    /\ combates_cleaned[i] = None

\* the node clean_combates<i>
CleanCombates(i) ==
    /\ CanCleanCombates(i)
    /\ combates_cleaned' =
          [combates_cleaned EXCEPT ![i] = Stored(clean_and_rename_first_column(combates[i]))]
    /\ combates' = [combates EXCEPT ![i] = InputAfterClean(combates[i])]
    /\ UNCHANGED <<previous_run, card_master_list, wincons, business_artifacts, selected_datasets,
                   combined_dataset, validation_artifacts,
                   rarity_distributions_analysis, most_used_cards_analysis,
                   win_conditions_usage_analysis, eda_summary>>

CleanNext == \E i \in 1..3 : CleanCombates(i)

SpecClean == CleanInit /\ [][CleanNext]_vars

-----------------------------------------------------------------------------
(* Inputs of the EDA pipeline.                                               *)

\* a catalog table with columns cols and one row per pair: the first column
\* holds the pair's id, a second column its name
MkCatalog(cols, pairs) ==
    [columns |-> cols,
     rows |-> [i \in 1..Len(pairs) |->
                 [c \in Range(cols) |-> IF c = cols[1] THEN pairs[i][1]
                                                         ELSE pairs[i][2]]]]

MasterColumns == <<"team.card1.id", "team.card1.name">>
WinconColumns == <<"card_id", "card_name">>

\* card master lists: id 1 twice, id 2 missing / no name column / ids 2 and 1
MasterDuplicate ==
    MkCatalog(MasterColumns, << <<1, <<"Knight">> >>, <<1, <<"Archers">> >> >>)
MasterNoNames == MkCatalog(<<"team.card1.id">>, << <<1, <<>> >> >>)
MasterBoth ==
    MkCatalog(MasterColumns, << <<2, <<"Giant">> >>, <<1, <<"Knight">> >> >>)

\* win-condition catalogs: id 1 twice / ids without names / no card_id
\* column / id 2 only
WinconDuplicate ==
    MkCatalog(WinconColumns, << <<1, <<"Hog Rider">> >>, <<1, <<"Ram Rider">> >> >>)
WinconNoNames == MkCatalog(<<"card_id">>, << <<1, <<>> >>, <<2, <<>> >> >>)
WinconNoIds == MkCatalog(<<"id", "card_name">>, << <<1, <<"Hog Rider">> >> >>)
WinconTwo == MkCatalog(WinconColumns, << <<2, <<"Balloon">> >> >>)

\* the <<card master list, win-condition catalog>> pairs of a run
Catalogs ==
    { <<MasterDuplicate, WinconDuplicate>>,
      <<MasterDuplicate, WinconNoNames>>,
      <<MasterNoNames, WinconNoNames>>,
      <<MasterBoth, WinconTwo>>,
      <<MasterDuplicate, WinconNoIds>> }

CardColumns == <<"battle_id", "winner.card1.id", "loser.card1.id">>
NoCardColumns == <<"battle_id", "winner.cards.list", "arena.id">>

LoserFirstColumns == <<"battle_id", "loser.card1.id", "winner.card1.id">>

\* card columns whose names mark the side in another letter case, or not
\* at all
CapitalColumns == <<"battle_id", "Winner.card1.id", "loser.card1.id">>
UnmarkedColumns == <<"battle_id", "team.card1.id">>

EdaSchemas ==
    { <<CardColumns, CardColumns, CardColumns>>,
      <<CapitalColumns, UnmarkedColumns, CardColumns>>,
      <<LoserFirstColumns, LoserFirstColumns, LoserFirstColumns>>,
      << <<"battle_id", "winner.card1.id">>,
         <<"battle_id", "loser.card1.id", "arena.id">>,
         <<"battle_id", "winner.cards.list">> >>,
      <<NoCardColumns, NoCardColumns, NoCardColumns>> }

EdaKinds ==
    { RowKind(1, 5, 6, 1, NaN),
      RowKind(1, 5, 6, NaN, 1),
      RowKind(1, 5, 6, 2, 1),
      RowKind(1, 5, 6, NaN, NaN),
      RowKind(1, 5, 6, 1, 2) }

\* the i-th card of a bulk table: ids 1 and 2 are the cards of the other rows
BulkId(i) == 2 + i

\* a batch of k battles whose winners played k different cards, one each
BulkKinds(k) == [i \in 1..k |-> RowKind(i, 5, 6, BulkId(i), NaN)]

\* rows added to a bulk run: one more use of the card just past the top-N
\* cut-off, of the first bulk card, of card 1
ExtraKinds ==
    { RowKind(1, 5, 6, BulkId(TopN + 1), NaN),
      RowKind(1, 5, 6, 1, BulkId(1)),
      RowKind(1, 5, 6, 1, 1) }

\* the win-condition catalog of a bulk run: card 1 and every bulk card
WinconBulk ==
    MkCatalog(WinconColumns,
              << <<1, <<"Hog Rider">> >> >>
              \o [i \in 1..(TopN + MaxOverflow) |-> <<BulkId(i), <<"Bulk", i>> >>])

\* the rows of kinds dealt to the three tables: row j goes to table
\* ((j - 1) % 3) + 1
Dealt(kinds) ==
    [t \in 1..3 |->
        LET at == SelectSeq([j \in 1..Len(kinds) |-> j], LAMBDA j : (j - 1) % 3 = t - 1)
        IN  [i \in 1..Len(at) |-> kinds[at[i]]]]

\* the ways the rows of kinds are split over the three tables: all in the
\* first, or dealt one by one
Splits(kinds) == { <<kinds, <<>>, <<>> >>, Dealt(kinds) }

\* all sequences over S of length at most max
SeqsUpTo(S, max) == UNION {SeqsOfLen(S, n) : n \in 0..max}

\* schemas with rarity-count columns: both tiers on both sides in every
\* table / the columns spread over the tables, the loser's epic count
\* nowhere / winner columns only
RarityColumns ==
    <<"battle_id", "winner.rare.count", "loser.rare.count", "winner.epic.count",
      "loser.epic.count", "winner.card1.id">>

RaritySchemas ==
    { <<RarityColumns, RarityColumns, RarityColumns>>,
      << <<"battle_id", "winner.rare.count">>,
         <<"battle_id", "loser.rare.count", "winner.epic.count">>,
         <<"battle_id", "arena.id">> >>,
      << <<"battle_id", "winner.epic.count", "winner.rare.count">>,
         <<"battle_id", "winner.epic.count", "winner.rare.count">>,
         <<"battle_id", "winner.epic.count", "winner.rare.count">> >> }

RarityKinds ==
    { RarityKind(2, 1, 1, 1),
      RarityKind(2, 1, 0, 1),
      RarityKind(1, 2, 0, 1),
      RarityKind(NaN, 1, 2, NaN),
      RarityKind(1, NaN, NaN, 0) }

\* small tables with rarity counts
RarityInit ==
    \E schema \in RaritySchemas :
    \E kinds \in SeqsUpTo(RarityKinds, MaxRows) : \E k \in Splits(kinds) :
        /\ combates_cleaned = << MkTable(schema[1], k[1]), MkTable(schema[2], k[2]),
                                 MkTable(schema[3], k[3]) >>
        /\ card_master_list = MasterBoth
        /\ wincons = WinconTwo

\* small tables under every schema and catalog pair
SmallInit ==
    \E schema \in EdaSchemas : \E cat \in Catalogs :
    \E kinds \in SeqsUpTo(EdaKinds, MaxRows) : \E k \in Splits(kinds) :
        /\ combates_cleaned = << MkTable(schema[1], k[1]), MkTable(schema[2], k[2]),
                                 MkTable(schema[3], k[3]) >>
        /\ card_master_list = cat[1]
        /\ wincons = cat[2]

\* a first batch of up to TopN + MaxOverflow different cards, and a few rows
\* more
BulkInit ==
    \E b \in 1..(TopN + MaxOverflow) :
    \E kinds \in SeqsUpTo(ExtraKinds, MaxRows) : \E k \in Splits(kinds) :
        /\ combates_cleaned = << MkTable(CardColumns, BulkKinds(b) \o k[1]),
                                 MkTable(CardColumns, k[2]),
                                 MkTable(CardColumns, k[3]) >>
        /\ card_master_list = MasterDuplicate
        /\ wincons = WinconBulk

EdaInit ==
    /\ SmallInit \/ BulkInit \/ RarityInit
    /\ combates = combates_cleaned
    /\ NothingProduced

-----------------------------------------------------------------------------
(* The EDA pipeline: the three analyzers run in any order, the summary once  *)
(* all three have returned.                                                  *)

CanAnalyzeRarityDistributions ==
    /\ RunAlive
    /\ InputsCleaned
    /\ rarity_distributions_analysis = None

AnalyzeRarityDistributions ==
    /\ CanAnalyzeRarityDistributions
    /\ rarity_distributions_analysis' = analyze_rarity_distributions(combates_cleaned)
    /\ UNCHANGED <<previous_run, combates, business_artifacts, validation_artifacts,
                   combates_cleaned, card_master_list, wincons, selected_datasets,
                   combined_dataset, most_used_cards_analysis,
                   win_conditions_usage_analysis, eda_summary>>

CanAnalyzeMostUsedCards ==
    /\ RunAlive
    /\ InputsCleaned
    /\ most_used_cards_analysis = None

AnalyzeMostUsedCards ==
    /\ CanAnalyzeMostUsedCards
    /\ most_used_cards_analysis' =
          analyze_most_used_cards(combates_cleaned, card_master_list)
    /\ UNCHANGED <<previous_run, combates, business_artifacts, validation_artifacts,
                   combates_cleaned, card_master_list, wincons, selected_datasets,
                   combined_dataset, rarity_distributions_analysis,
                   win_conditions_usage_analysis, eda_summary>>

CanAnalyzeWinConditionsUsage ==
    /\ RunAlive
    /\ InputsCleaned
    /\ win_conditions_usage_analysis = None

AnalyzeWinConditionsUsage ==
    /\ CanAnalyzeWinConditionsUsage
    /\ win_conditions_usage_analysis' =
          analyze_win_conditions_usage(combates_cleaned, wincons, card_master_list)
    /\ UNCHANGED <<previous_run, combates, business_artifacts, validation_artifacts,
                   combates_cleaned, card_master_list, wincons, selected_datasets,
                   combined_dataset, rarity_distributions_analysis,
                   most_used_cards_analysis, eda_summary>>

CanGenerateEdaSummary ==
    /\ RunAlive
    /\ rarity_distributions_analysis.st = "ok"
    /\ most_used_cards_analysis.st = "ok"
    /\ win_conditions_usage_analysis.st = "ok"
    /\ eda_summary = None

GenerateEdaSummary ==
    /\ CanGenerateEdaSummary
    /\ eda_summary' = generate_eda_summary(rarity_distributions_analysis.val,
                                           most_used_cards_analysis.val,
                                           win_conditions_usage_analysis.val)
    /\ UNCHANGED <<previous_run, combates, business_artifacts, validation_artifacts,
                   combates_cleaned, card_master_list, wincons, selected_datasets,
                   combined_dataset, rarity_distributions_analysis,
                   most_used_cards_analysis, win_conditions_usage_analysis>>

EdaNext ==
    \/ AnalyzeRarityDistributions
    \/ AnalyzeMostUsedCards
    \/ AnalyzeWinConditionsUsage
    \/ GenerateEdaSummary

SpecEda == EdaInit /\ [][EdaNext]_vars

-----------------------------------------------------------------------------
(* The report nodes of the business-understanding pipeline, and a run of the *)
(* three pipelines together: a node runs once, when the artifacts it reads   *)
(* are there, and no node runs after one has raised.                         *)

CanAnalyzeBusinessObjectives ==
    /\ RunAlive
    /\ InputsCleaned
    /\ business_objectives_analysis = None

AnalyzeBusinessObjectives ==
    /\ CanAnalyzeBusinessObjectives
    /\ business_objectives_analysis' =
          Ok(analyze_business_objectives(combates_cleaned, card_master_list, wincons))
    /\ UNCHANGED <<previous_run, combates, combates_cleaned, card_master_list, wincons,
                   current_situation_evaluation, ml_objectives_definition,
                   project_plan, business_understanding_summary, selected_datasets,
                   combined_dataset, validation_artifacts,
                   rarity_distributions_analysis, most_used_cards_analysis,
                   win_conditions_usage_analysis, eda_summary>>

CanEvaluateCurrentSituation ==
    /\ RunAlive
    /\ InputsCleaned
    /\ current_situation_evaluation = None

EvaluateCurrentSituation ==
    /\ CanEvaluateCurrentSituation
    /\ current_situation_evaluation' = Ok(evaluate_current_situation(combates_cleaned))
    /\ UNCHANGED <<previous_run, combates, combates_cleaned, card_master_list, wincons,
                   business_objectives_analysis, ml_objectives_definition,
                   project_plan, business_understanding_summary, selected_datasets,
                   combined_dataset, validation_artifacts,
                   rarity_distributions_analysis, most_used_cards_analysis,
                   win_conditions_usage_analysis, eda_summary>>

\* a node define_ml_objectives that does not wait for the artifacts it reads
CanDefineMlObjectivesEarly ==
    /\ RunAlive
    /\ ml_objectives_definition = None

CanDefineMlObjectives ==
    /\ RunAlive
    /\ business_objectives_analysis.st = "ok"
    /\ current_situation_evaluation.st = "ok"
    /\ ml_objectives_definition = None

DefineMlObjectives ==
    /\ CanDefineMlObjectives
    /\ ml_objectives_definition' =
          Ok(define_ml_objectives(business_objectives_analysis.val,
                                  current_situation_evaluation.val))
    /\ UNCHANGED <<previous_run, combates, combates_cleaned, card_master_list, wincons,
                   business_objectives_analysis, current_situation_evaluation,
                   project_plan, business_understanding_summary, selected_datasets,
                   combined_dataset, validation_artifacts,
                   rarity_distributions_analysis, most_used_cards_analysis,
                   win_conditions_usage_analysis, eda_summary>>

CanGenerateProjectPlan ==
    /\ RunAlive
    /\ business_objectives_analysis.st = "ok"
    /\ current_situation_evaluation.st = "ok"
    /\ ml_objectives_definition.st = "ok"
    /\ project_plan = None

GenerateProjectPlan ==
    /\ CanGenerateProjectPlan
    /\ project_plan' =
          Ok(generate_project_plan(business_objectives_analysis.val,
                                   current_situation_evaluation.val,
                                   ml_objectives_definition.val))
    /\ UNCHANGED <<previous_run, combates, combates_cleaned, card_master_list, wincons,
                   business_objectives_analysis, current_situation_evaluation,
                   ml_objectives_definition, business_understanding_summary,
                   selected_datasets, combined_dataset, validation_artifacts,
                   rarity_distributions_analysis, most_used_cards_analysis,
                   win_conditions_usage_analysis, eda_summary>>

CanCreateBusinessSummary ==
    /\ RunAlive
    /\ business_objectives_analysis.st = "ok"
    /\ current_situation_evaluation.st = "ok"
    /\ ml_objectives_definition.st = "ok"
    /\ project_plan.st = "ok"
    /\ business_understanding_summary = None

CreateBusinessSummary ==
    /\ CanCreateBusinessSummary
    /\ business_understanding_summary' =
          Ok(create_business_summary(business_objectives_analysis.val,
                                     current_situation_evaluation.val,
                                     ml_objectives_definition.val,
                                     project_plan.val))
    /\ UNCHANGED <<previous_run, combates, combates_cleaned, card_master_list, wincons,
                   business_objectives_analysis, current_situation_evaluation,
                   ml_objectives_definition, project_plan, selected_datasets,
                   combined_dataset, validation_artifacts,
                   rarity_distributions_analysis, most_used_cards_analysis,
                   win_conditions_usage_analysis, eda_summary>>

BusinessNext ==
    \/ CleanNext
    \/ AnalyzeBusinessObjectives
    \/ EvaluateCurrentSituation
    \/ DefineMlObjectives
    \/ GenerateProjectPlan
    \/ CreateBusinessSummary

\* most rows the three raw tables hold together in a run of the pipelines
MaxRunRows == 2

\* a raw table with every column the pipelines read
RawFull ==
    <<"Unnamed: 0", "winner.tag", "loser.tag", "winner.card1.id", "loser.card1.id",
      "winner.rare.count", "loser.rare.count">>

\* the raw tables of a run: complete / of differing columns / without tags
\* and cards / one of them without columns
RunSchemas ==
    { <<RawFull, RawFull, RawFull>>,
      <<RawFull, RawNamed, RawSingle>>,
      <<RawSingle, RawSingle, RawSingle>>,
      <<RawFull, RawNoColumns, RawFull>> }

RunKinds == { RarityKind(2, 1, 1, 1), RarityKind(1, NaN, 0, 1) }

PipelineInit ==
    /\ \E schema \in RunSchemas :
       \E kinds \in SeqsUpTo(RunKinds, MaxRunRows) : \E k \in Splits(kinds) :
            combates = << MkTable(schema[1], k[1]), MkTable(schema[2], k[2]),
                          MkTable(schema[3], k[3]) >>
    /\ NothingCleaned
    /\ card_master_list = MasterBoth
    /\ wincons = WinconTwo
    /\ NothingProduced

PipelineNext == BusinessNext \/ PrepNext \/ EdaNext

SpecPipeline == PipelineInit /\ [][PipelineNext]_vars

-----------------------------------------------------------------------------
(* Claims about the data-preparation nodes. *)

Whitelist == Range(relevant_columns)

\* the cell of input table t, row i, under column c, as the unified table
\* must show it: the input's cell when c is a whitelist column of table t,
\* NaN when it is not
ExpectedCell(t, i, c) ==
    IF c \in Whitelist /\ c \in Range(combates_cleaned[t].columns)
    THEN combates_cleaned[t].rows[i][c]
    ELSE NaN

\* C1: the unified table has exactly as many rows as the three input tables
\* together
C1_RowCountIsSum ==
    combined_dataset.st = "ok" =>
        NRows(combined_dataset.val) =
            NRows(combates_cleaned[1]) + NRows(combates_cleaned[2])
                + NRows(combates_cleaned[3])

\* a unification of non-empty batches that holds two equal rows
C1_Witness ==
    /\ combined_dataset.st = "ok"
    /\ \A t \in 1..3 : NRows(combates_cleaned[t]) >= 1
    /\ \E i, j \in 1..NRows(combined_dataset.val) :
          i # j /\ combined_dataset.val.rows[i] = combined_dataset.val.rows[j]

\* C2: the unified table lists batch 1, then batch 2, then batch 3, each in
\* its own row order, and keeps equal rows
C2_BatchOrderKept ==
    combined_dataset.st = "ok" =>
        LET out == combined_dataset.val
            n1 == NRows(combates_cleaned[1])
            n2 == NRows(combates_cleaned[2])
            n3 == NRows(combates_cleaned[3])
        IN  /\ NRows(out) = n1 + n2 + n3
            /\ \A c \in Range(out.columns) :
                  /\ \A i \in 1..n1 : out.rows[i][c] = ExpectedCell(1, i, c)
                  /\ \A i \in 1..n2 : out.rows[n1 + i][c] = ExpectedCell(2, i, c)
                  /\ \A i \in 1..n3 : out.rows[n1 + n2 + i][c] = ExpectedCell(3, i, c)

\* a unification where batch 1 has two different rows, a later batch has a
\* row, and some row occurs twice
C2_Witness ==
    /\ combined_dataset.st = "ok"
    /\ NRows(combates_cleaned[1]) >= 2
    /\ SelectOne(combates_cleaned[1]).rows[1] # SelectOne(combates_cleaned[1]).rows[2]
    /\ NRows(combates_cleaned[2]) + NRows(combates_cleaned[3]) >= 1
    /\ \E i, j \in 1..NRows(combined_dataset.val) :
          i # j /\ combined_dataset.val.rows[i] = combined_dataset.val.rows[j]

\* C3: column selection returns, for every table, all of its rows and
\* exactly the whitelist columns the table has
Projected(t, sel) ==
    /\ Range(sel.columns) = Whitelist \cap Range(combates_cleaned[t].columns)
    /\ Len(sel.columns) = Cardinality(Range(sel.columns))
    /\ NRows(sel) = NRows(combates_cleaned[t])
    /\ \A i \in 1..NRows(sel) :
          /\ DOMAIN sel.rows[i] = Range(sel.columns)
          /\ \A c \in Range(sel.columns) :
                sel.rows[i][c] = combates_cleaned[t].rows[i][c]

C3_SelectionPermissive ==
    /\ selected_datasets.st \in {"none", "ok"}
    /\ selected_datasets.st = "ok" =>
          /\ Projected(1, selected_datasets.val.combates1)
          /\ Projected(2, selected_datasets.val.combates2)
          /\ Projected(3, selected_datasets.val.combates3)

\* a table whose only whitelisted column is battle_id was projected to that
\* one column, with its rows
C3_Witness ==
    /\ selected_datasets.st = "ok"
    /\ selected_datasets.val.combates2.columns = <<"battle_id">>
    /\ NRows(selected_datasets.val.combates2) >= 2
    /\ \E i \in 1..NRows(combates_cleaned[2]) :
          combates_cleaned[2].rows[i]["battle_id"] = NaN

-----------------------------------------------------------------------------
(* Claims about the EDA analyzers.  What a report must hold is stated over   *)
(* the cells of the three input tables, not over the analyzers' code.        *)

\* the cells <<table, row, column>> under a column whose lower-cased name
\* contains both "card" and "id"
CardCells ==
    UNION {{<<t, i, c>> : i \in 1..NRows(combates_cleaned[t]),
                          c \in Range(combates_cleaned[t].columns) \cap CardColumnNames}
           : t \in 1..3}

Val(p) == combates_cleaned[p[1]].rows[p[2]][p[3]]

\* the card columns the three tables have between them
MatchedColumns ==
    UNION {Range(combates_cleaned[t].columns) \cap CardColumnNames : t \in 1..3}

\* the non-null card cells, all of them and on each side
UsedCells == {p \in CardCells : Val(p) # NaN}
WinConditionCells ==
    LET ids == win_condition_ids(wincons)
    IN  {p \in UsedCells : Val(p) \in ids}
WinnerCells == {p \in WinConditionCells : p[3] \in WinnerColumnNames}
LoserCells == {p \in WinConditionCells : p[3] \in LoserColumnNames}

Values(cells) == {Val(p) : p \in cells}

\* how often value v occurs in cells
CountIn(cells, v) == Cardinality({p \in cells : Val(p) = v})

\* the occurrence count of each value of the multiset of cells, and of the
\* union of two multisets
Occ(cells) == [v \in Values(cells) |-> CountIn(cells, v)]
OccBoth(cells1, cells2) ==
    [v \in Values(cells1 \cup cells2) |-> CountIn(cells1, v) + CountIn(cells2, v)]

Ids(report) == {report[k].id : k \in 1..Len(report)}
SumCounts(report) == SumSeq([k \in 1..Len(report) |-> report[k].count])
SumPercentages(report) == SumSeq([k \in 1..Len(report) |-> report[k].percentage])

CardsReported ==
    /\ most_used_cards_analysis.st = "ok"
    /\ HasKey(most_used_cards_analysis.val, "top_cards")

WinConditionsReported ==
    /\ win_conditions_usage_analysis.st = "ok"
    /\ HasKey(win_conditions_usage_analysis.val, "usage_stats")

\* P holds of each report there is, given with the occurrence counts, the
\* values and the size of the multiset it was built from
EveryReport(P(_, _, _, _)) ==
    /\ CardsReported =>
          LET used == UsedCells
          IN  P(most_used_cards_analysis.val.top_cards, Occ(used), Values(used),
                Cardinality(used))
    /\ WinConditionsReported =>
          LET winner == WinnerCells
              loser == LoserCells
              r == win_conditions_usage_analysis.val
          IN  /\ P(r.winner_win_conditions, Occ(winner), Values(winner),
                   Cardinality(winner))
              /\ P(r.loser_win_conditions, Occ(loser), Values(loser),
                   Cardinality(loser))
              /\ P(r.overall_win_conditions, OccBoth(winner, loser),
                   Values(winner \cup loser), Cardinality(winner) + Cardinality(loser))

SomeReport(P(_, _, _, _)) ==
    \/ /\ CardsReported
       /\ LET used == UsedCells
          IN  P(most_used_cards_analysis.val.top_cards, Occ(used), Values(used),
                Cardinality(used))
    \/ /\ WinConditionsReported
       /\ LET winner == WinnerCells
              loser == LoserCells
              r == win_conditions_usage_analysis.val
          IN  \/ P(r.winner_win_conditions, Occ(winner), Values(winner),
                   Cardinality(winner))
              \/ P(r.loser_win_conditions, Occ(loser), Values(loser),
                   Cardinality(loser))
              \/ P(r.overall_win_conditions, OccBoth(winner, loser),
                   Values(winner \cup loser), Cardinality(winner) + Cardinality(loser))

\* C4: the Card Usage Analyzer counts the non-null card cells only:
\* total_card_uses is their number, unique_cards the number of their distinct
\* values, and no entry of top_cards stands for a missing cell
C4_NullCellsNotCounted ==
    CardsReported =>
        LET r == most_used_cards_analysis.val
            used == UsedCells
        IN  /\ r.card_usage_stats.total_card_uses = Cardinality(used)
            /\ r.card_usage_stats.unique_cards = Cardinality(Values(used))
            /\ Range(r.card_columns_found) = MatchedColumns
            /\ NaN \notin Ids(r.top_cards)
            /\ Ids(r.top_cards) \subseteq Values(used)

\* a report over tables with null and non-null card cells, and with a card
\* column that one of the tables lacks
C4_Witness ==
    /\ CardsReported
    /\ \E p \in CardCells : Val(p) = NaN
    /\ Cardinality(UsedCells) >= 1
    /\ \E t \in 1..3 : \E c \in MatchedColumns :
          c \notin Range(combates_cleaned[t].columns)

\* C5: a top-N report has at most 20 entries, each with the occurrence count
\* of its value; the counts sum to at most the size of the multiset, and no
\* value left out occurs more often than the least frequent value reported
TopNOfMultiset(report, occ, values, total) ==
    /\ Len(report) <= TopN
    /\ Cardinality(Ids(report)) = Len(report)
    /\ Ids(report) \subseteq values
    /\ \A k \in 1..Len(report) : report[k].count = occ[report[k].id]
    /\ SumCounts(report) <= total
    /\ \A v \in values \ Ids(report) :
          \A k \in 1..Len(report) : occ[v] <= report[k].count

C5_TopNBounds == EveryReport(TopNOfMultiset)

\* a report cut at 20 entries whose first entry is a value counted after
\* twenty others
CutOffReport(report, occ, values, total) ==
    /\ Len(report) = TopN
    /\ Cardinality(values) > TopN
    /\ report[1].id = BulkId(TopN + 1)

C5_Witness == SomeReport(CutOffReport)

\* C6 as stated: in each report the rounded percentages sum to at most 100
\* (10000 hundredths of a percent)
PercentagesAtMost100(report, occ, values, total) == SumPercentages(report) <= 10000

C6_PercentagesSumAtMost100 == EveryReport(PercentagesAtMost100)

\* C6, amended: each percentage is rounded to the nearest hundredth, so the
\* rounded percentages of a report of n entries sum to at most
\* 100 + 0.005 * n (at most 100.10 for the 20 entries of a full report)
PercentagesWithinRounding(report, occ, values, total) ==
    /\ 2 * SumPercentages(report) <= 2 * 10000 + Len(report)
    /\ Len(report) <= TopN

C6_PercentagesSumWithinRounding == EveryReport(PercentagesWithinRounding)

\* a report of several entries whose rounded percentages sum to more than 100
RoundedAbove100(report, occ, values, total) ==
    /\ Len(report) >= 2
    /\ SumPercentages(report) > 10000

C6_Witness == SomeReport(RoundedAbove100)

\* C7: with a card column matched, both analyzers return their normal report,
\* also when a count they divide by is 0
C7_ZeroDenominatorYieldsReport ==
    MatchedColumns # {} =>
        /\ most_used_cards_analysis.st # "none" => CardsReported
        /\ win_conditions_usage_analysis.st # "none" => WinConditionsReported

\* C8: without any card column both analyzers return the error marker, and
\* the summary of a marker reports zero cards, zero win conditions, no
\* popular cards and neither of the two top insights
Marker == [error |-> "No se encontraron columnas de cartas"]

InsightLabels(summary) ==
    {summary.insights[k][1] : k \in 1..Len(summary.insights)}

NoCardFindings(summary) ==
    /\ summary.st = "ok"
    /\ summary.val.key_findings.total_unique_cards = 0
    /\ summary.val.key_findings.most_popular_cards = <<>>
    /\ "Carta mas popular" \notin InsightLabels(summary.val)

NoWinConditionFindings(summary) ==
    /\ summary.st = "ok"
    /\ summary.val.key_findings.total_win_conditions = 0
    /\ "Win condition mas usada" \notin InsightLabels(summary.val)

C8_MarkerDegradesSummary ==
    /\ MatchedColumns = {} =>
          /\ most_used_cards_analysis \in {None, Ok(Marker)}
          /\ win_conditions_usage_analysis \in {None, Ok(Marker)}
          /\ eda_summary # None =>
                NoCardFindings(eda_summary) /\ NoWinConditionFindings(eda_summary)
    \* the summary of one marker and the other analyzer's report
    /\ rarity_distributions_analysis.st = "ok" =>
          /\ CardsReported =>
                NoWinConditionFindings(
                    generate_eda_summary(rarity_distributions_analysis.val,
                                         most_used_cards_analysis.val, Marker))
          /\ WinConditionsReported =>
                NoCardFindings(
                    generate_eda_summary(rarity_distributions_analysis.val, Marker,
                                         win_conditions_usage_analysis.val))

\* the summary of two markers, over tables that hold battles
C8_Witness ==
    /\ MatchedColumns = {}
    /\ most_used_cards_analysis = Ok(Marker)
    /\ win_conditions_usage_analysis = Ok(Marker)
    /\ eda_summary.st = "ok"
    /\ eda_summary.val.eda_overview.dataset_size >= 2

\* C9: an entry's name is the catalog name of its id, the last catalog row
\* of the id winning, and else a synthesized label: "Carta_<id>" in the card
\* report; in a win-condition report the win-condition catalog comes first,
\* then the card catalog, then "WinCondition_<id>"
RowsOf(table, idcol, id) == {i \in 1..Len(table.rows) : table.rows[i][idcol] = id}

MasterNamed(id) ==
    /\ {"team.card1.id", "team.card1.name"} \subseteq Range(card_master_list.columns)
    /\ RowsOf(card_master_list, "team.card1.id", id) # {}

MasterName(id) ==
    card_master_list.rows[Max(RowsOf(card_master_list, "team.card1.id", id))]
        ["team.card1.name"]

WinconNamed(id) ==
    /\ {"card_id", "card_name"} \subseteq Range(wincons.columns)
    /\ RowsOf(wincons, "card_id", id) # {}

WinconName(id) == wincons.rows[Max(RowsOf(wincons, "card_id", id))]["card_name"]

ExpectedCardName(id) ==
    IF MasterNamed(id) THEN MasterName(id) ELSE <<"Carta_", id>>

ExpectedWcName(id) ==
    IF WinconNamed(id) THEN WinconName(id)
    ELSE IF MasterNamed(id) THEN MasterName(id)
    ELSE <<"WinCondition_", id>>

WcNamesResolved(report) ==
    \A k \in 1..Len(report) : report[k].card_name = ExpectedWcName(report[k].id)

C9_NamesResolvedInOrder ==
    /\ CardsReported =>
          \A k \in 1..Len(most_used_cards_analysis.val.top_cards) :
              LET e == most_used_cards_analysis.val.top_cards[k]
              IN  e.card_name = ExpectedCardName(e.id)
    /\ WinConditionsReported =>
          /\ WcNamesResolved(win_conditions_usage_analysis.val.winner_win_conditions)
          /\ WcNamesResolved(win_conditions_usage_analysis.val.loser_win_conditions)
          /\ WcNamesResolved(win_conditions_usage_analysis.val.overall_win_conditions)

Names(report) == {report[k].card_name : k \in 1..Len(report)}

\* a card report naming a card after the last of two catalog rows and
\* another by its "Carta_" label, with a win-condition report naming one win
\* condition from the card catalog and another by its "WinCondition_" label
C9_Witness ==
    /\ CardsReported
    /\ WinConditionsReported
    /\ {<<"Archers">>, <<"Carta_", 2>>}
          \subseteq Names(most_used_cards_analysis.val.top_cards)
    /\ {<<"Archers">>, <<"WinCondition_", 2>>}
          \subseteq Names(win_conditions_usage_analysis.val.overall_win_conditions)

\* C10: the three win-condition multisets hold win-condition ids only, the
\* combined one is the union of the two sides, and each report's percentages
\* are shares of its own multiset
OwnShares(report, occ, values, total) ==
    /\ Ids(report) \subseteq win_condition_ids(wincons)
    /\ \A k \in 1..Len(report) :
          /\ report[k].count = occ[report[k].id]
          /\ total > 0
          \* within half a hundredth of count / total * 100
          /\ 2 * report[k].percentage * total <= 2 * 10000 * report[k].count + total
          /\ 2 * report[k].percentage * total >= 2 * 10000 * report[k].count - total

C10_ThreeMultisetsOwnTotals ==
    WinConditionsReported =>
        LET r == win_conditions_usage_analysis.val
            winner == WinnerCells
            loser == LoserCells
        IN  /\ r.usage_stats.total_winner_wc_uses = Cardinality(winner)
            /\ r.usage_stats.total_loser_wc_uses = Cardinality(loser)
            /\ r.usage_stats.total_wc_uses =
                  r.usage_stats.total_winner_wc_uses + r.usage_stats.total_loser_wc_uses
            /\ OwnShares(r.winner_win_conditions, Occ(winner), Values(winner),
                         Cardinality(winner))
            /\ OwnShares(r.loser_win_conditions, Occ(loser), Values(loser),
                         Cardinality(loser))
            /\ OwnShares(r.overall_win_conditions, OccBoth(winner, loser),
                         Values(winner \cup loser),
                         Cardinality(winner) + Cardinality(loser))

\* a report over both sides, of different sizes, where a win condition's
\* share of its side differs from its share of the whole
C10_Witness ==
    /\ WinConditionsReported
    /\ Cardinality(WinnerCells) > Cardinality(LoserCells)
    /\ Cardinality(LoserCells) > 0
    /\ win_conditions_usage_analysis.val.winner_win_conditions[1].percentage
          # win_conditions_usage_analysis.val.overall_win_conditions[1].percentage

-----------------------------------------------------------------------------
(* Claims about the cleaning nodes. *)

\* node i has just written its cleaned table
JustCleaned(i) == combates_cleaned[i] = None /\ IsTable(combates_cleaned'[i])

\* out is the table in with the leading column labelled battle_id: the same
\* number of columns and of rows, every other label and every cell in place
SameButLeadingLabel(in, out) ==
    /\ Len(out.columns) = Len(in.columns)
    /\ out.columns[1] = "battle_id"
    /\ \A p \in 2..Len(in.columns) : out.columns[p] = in.columns[p]
    /\ NRows(out) = NRows(in)
    /\ \A r \in 1..NRows(in) : \A p \in 1..Len(in.columns) :
          PosCell(out, r, p) = PosCell(in, r, p)

\* C11: the table a cleaning node returns is the table it was given with the
\* leading column named battle_id (same rows in the same order, same columns
\* in the same order, no other label and no cell changed), and the table it
\* was given is left as it was
C11_CleanOnlyRenamesLeadingColumn ==
    [][\A i \in 1..3 :
          JustCleaned(i) =>
              /\ SameButLeadingLabel(combates[i], combates_cleaned'[i])
              /\ combates' = combates]_vars

\* a raw table of two rows and three columns, its leading column unnamed, has
\* been cleaned
C11_Witness ==
    \E i \in 1..3 :
        /\ IsTable(combates_cleaned[i])
        /\ NRows(combates[i]) >= 2
        /\ Len(combates[i].columns) >= 3
        /\ combates[i].columns[1] # "battle_id"
        /\ combates_cleaned[i] # combates[i]

\* a table without rows or without columns
IsEmptyTable(df) == df.rows = <<>> \/ df.columns = <<>>

\* C12: a cleaning node does not raise, and of a table without rows or
\* without columns it returns a table without rows, with as many columns
C12_CleanNeverRaises ==
    \A i \in 1..3 :
        /\ ~IsRaised(combates_cleaned[i])
        /\ (IsTable(combates_cleaned[i]) /\ IsEmptyTable(combates[i])) =>
              /\ combates_cleaned[i].rows = <<>>
              /\ Len(combates_cleaned[i].columns) = Len(combates[i].columns)

-----------------------------------------------------------------------------
(* Claims about the validator. *)

IdentifierColumns == {"battle_id", "winner.tag", "loser.tag"}

\* column col of the unified table has no null cell
Complete(col) ==
    \A r \in 1..NRows(combined_dataset.val) : combined_dataset.val.rows[r][col] # NaN

\* C13: the validator raises exactly when the unified table lacks one of
\* battle_id, winner.tag, loser.tag; otherwise it returns a report, and each
\* of its three completeness flags is true exactly when the flag's column
\* has no null cell
C13_ValidatorFailsOnlyOnMissingIdentifier ==
    dataset_validation # None =>
        IF IdentifierColumns \subseteq Range(combined_dataset.val.columns)
        THEN /\ dataset_validation.st = "ok"
             /\ dataset_validation.val.data_integrity.battle_ids_complete
                   = Complete("battle_id")
             /\ dataset_validation.val.data_integrity.winner_tags_complete
                   = Complete("winner.tag")
             /\ dataset_validation.val.data_integrity.loser_tags_complete
                   = Complete("loser.tag")
        ELSE dataset_validation = Raised("KeyError")

\* a report on a unified table, with one flag true and one false on a column
\* that has a non-null cell too
C13_Witness ==
    /\ dataset_validation.st = "ok"
    /\ dataset_validation.val.data_integrity.battle_ids_complete
    /\ ~dataset_validation.val.data_integrity.winner_tags_complete
    /\ \E r \in 1..NRows(combined_dataset.val) :
          combined_dataset.val.rows[r]["winner.tag"] # NaN

\* the validator raised on a unified table that has battle_id and winner.tag
\* and lacks loser.tag
C13_WitnessRaised ==
    /\ dataset_validation.st = "raised"
    /\ IdentifierColumns \ Range(combined_dataset.val.columns) = {"loser.tag"}

-----------------------------------------------------------------------------
(* Claims about the rarity analyzer and the rarity sentences of the summary. *)

\* the columns of the three-table union
UnionColumnSet == UNION {Range(combates_cleaned[t].columns) : t \in 1..3}

\* the non-null cells of column col over the three tables, table by table
CellsOf(col) ==
    Flatten([t \in 1..3 |->
        IF col \in Range(combates_cleaned[t].columns)
        THEN SelectSeq([r \in 1..NRows(combates_cleaned[t]) |->
                           combates_cleaned[t].rows[r][col]],
                       LAMBDA v : v # NaN)
        ELSE <<>>])

\* the mean of column col as <<sum, count>>
Mean(col) == <<SumSeq(CellsOf(col)), Len(CellsOf(col))>>

\* the tiers whose column of the given side is in the union
TiersPresent(side_cols) ==
    {Rarities[k] : k \in {j \in 1..Len(Rarities) : side_cols[j] \in UnionColumnSet}}

\* the tiers with both columns in the union, in tier order
TiersCompared ==
    SelectSeq(Rarities,
              LAMBDA tier : \E k \in 1..Len(Rarities) :
                               /\ Rarities[k] = tier
                               /\ winner_rarity_cols[k] \in UnionColumnSet
                               /\ loser_rarity_cols[k] \in UnionColumnSet)

\* every rarity column of the union holds a non-null cell
RarityColumnsFilled ==
    \A col \in (Range(winner_rarity_cols) \cup Range(loser_rarity_cols))
                  \cap UnionColumnSet : CellsOf(col) # <<>>

\* the fraction d is the difference of the fractions w and l
IsDifference(d, w, l) == d[1] * (w[2] * l[2]) = (w[1] * l[2] - l[1] * w[2]) * d[2]

\* the comparison entry c is the one of tier number k
ComparesTier(c, k) ==
    /\ c.rarity = Rarities[k]
    /\ c.winner_avg = Mean(winner_rarity_cols[k])
    /\ c.loser_avg = Mean(loser_rarity_cols[k])
    /\ c.difference[2] # 0
    /\ IsDifference(c.difference, c.winner_avg, c.loser_avg)

\* C14: a rarity column absent from the union is no error.  When every
\* rarity column that is present holds a value, the analyzer returns a
\* report: each side's stats hold exactly the tiers whose column is present,
\* and the comparison holds exactly the tiers with both columns present, each
\* with difference = winner_avg - loser_avg
C14_AbsentRarityColumnOmitted ==
    (rarity_distributions_analysis # None /\ RarityColumnsFilled) =>
        /\ rarity_distributions_analysis.st = "ok"
        /\ LET r == rarity_distributions_analysis.val
               c == r.winner_vs_loser_comparison
           IN  /\ DOMAIN r.winner_rarity_distribution = TiersPresent(winner_rarity_cols)
               /\ DOMAIN r.loser_rarity_distribution = TiersPresent(loser_rarity_cols)
               /\ [j \in 1..Len(c) |-> c[j].rarity] = TiersCompared
               /\ \A j \in 1..Len(c) : \E k \in 1..Len(Rarities) : ComparesTier(c[j], k)

\* a report on a union with the winner's epic column and without the loser's:
\* epic is in the winner's stats only, rare is compared, with a difference
\* that is not zero
C14_Witness ==
    /\ rarity_distributions_analysis.st = "ok"
    /\ "winner.epic.count" \in UnionColumnSet
    /\ "loser.epic.count" \notin UnionColumnSet
    /\ LET r == rarity_distributions_analysis.val
       IN  /\ "epic" \in DOMAIN r.winner_rarity_distribution
           /\ "epic" \notin DOMAIN r.loser_rarity_distribution
           /\ Len(r.winner_vs_loser_comparison) = 1
           /\ r.winner_vs_loser_comparison[1].rarity = "rare"
           /\ r.winner_vs_loser_comparison[1].difference[1] # 0

-----------------------------------------------------------------------------
(* Claims about a run of the pipelines. *)

\* the artifacts the nodes write, by the name the pipelines give them
Artifact ==
    [Combates1_cleaned |-> combates_cleaned[1],
     Combates2_cleaned |-> combates_cleaned[2],
     Combates3_cleaned |-> combates_cleaned[3],
     business_objectives_analysis |-> business_objectives_analysis,
     current_situation_evaluation |-> current_situation_evaluation,
     ml_objectives_definition |-> ml_objectives_definition,
     project_plan |-> project_plan,
     business_understanding_summary |-> business_understanding_summary,
     selected_datasets |-> selected_datasets,
     combined_dataset |-> combined_dataset,
     dataset_validation |-> dataset_validation,
     data_preparation_summary |-> data_preparation_summary,
     rarity_distributions_analysis |-> rarity_distributions_analysis,
     most_used_cards_analysis |-> most_used_cards_analysis,
     win_conditions_usage_analysis |-> win_conditions_usage_analysis,
     eda_summary |-> eda_summary]

ArtifactNames == DOMAIN Artifact

CleanedNames == {"Combates1_cleaned", "Combates2_cleaned", "Combates3_cleaned"}

\* the artifacts read by the node that writes each artifact, as the three
\* pipelines name them (the raw tables and the two catalogs, which no node
\* writes, left out)
ReadBy ==
    [a \in ArtifactNames |->
        CASE a \in CleanedNames -> {}
          [] a \in {"business_objectives_analysis", "current_situation_evaluation",
                    "selected_datasets", "rarity_distributions_analysis",
                    "most_used_cards_analysis", "win_conditions_usage_analysis"} ->
               CleanedNames
          [] a = "ml_objectives_definition" ->
               {"business_objectives_analysis", "current_situation_evaluation"}
          [] a = "project_plan" ->
               {"business_objectives_analysis", "current_situation_evaluation",
                "ml_objectives_definition"}
          [] a = "business_understanding_summary" ->
               {"business_objectives_analysis", "current_situation_evaluation",
                "ml_objectives_definition", "project_plan"}
          [] a = "combined_dataset" -> {"selected_datasets"}
          [] a = "dataset_validation" -> {"combined_dataset"}
          [] a = "data_preparation_summary" -> {"dataset_validation"}
          [] a = "eda_summary" ->
               {"rarity_distributions_analysis", "most_used_cards_analysis",
                "win_conditions_usage_analysis"}]

\* the node writing x has run / has run and returned
HasRun(x) == x # None
Finished(x) == HasRun(x) /\ ~IsRaised(x)

\* some node can run
NodeCanRun ==
    \/ \E i \in 1..3 : CanCleanCombates(i)
    \/ CanAnalyzeBusinessObjectives
    \/ CanEvaluateCurrentSituation
    \/ CanDefineMlObjectives
    \/ CanGenerateProjectPlan
    \/ CanCreateBusinessSummary
    \/ CanSelectRelevantColumns
    \/ CanCombineDatasets
    \/ CanValidateCombinedDataset
    \/ CanCreatePreparationSummary
    \/ CanAnalyzeRarityDistributions
    \/ CanAnalyzeMostUsedCards
    \/ CanAnalyzeWinConditionsUsage
    \/ CanGenerateEdaSummary

\* the run is over and no node raised
Completed == RunAlive /\ ~NodeCanRun

\* every node has run and returned
AllFinished == \A a \in ArtifactNames : Finished(Artifact[a])

-----------------------------------------------------------------------------
(* The pipelines run twice on the same source tables: when the first run is  *)
(* over, its artifacts are set aside and every node runs again.              *)

Rerun ==
    /\ ~NodeCanRun
    /\ previous_run = None
    /\ previous_run' = Artifact
    /\ combates_cleaned' = <<None, None, None>>
    /\ business_objectives_analysis' = None
    /\ current_situation_evaluation' = None
    /\ ml_objectives_definition' = None
    /\ project_plan' = None
    /\ business_understanding_summary' = None
    /\ selected_datasets' = None
    /\ combined_dataset' = None
    /\ dataset_validation' = None
    /\ data_preparation_summary' = None
    /\ rarity_distributions_analysis' = None
    /\ most_used_cards_analysis' = None
    /\ win_conditions_usage_analysis' = None
    /\ eda_summary' = None
    /\ UNCHANGED <<combates, card_master_list, wincons>>

\* most rows the three raw tables hold together when the pipelines run twice
MaxRerunRows == 1

\* the raw tables of the two runs: complete / one of them without columns
RerunSchemas ==
    { <<RawFull, RawFull, RawFull>>,
      <<RawFull, RawNoColumns, RawFull>> }

\* the battles of the two runs are of one kind
RerunKinds == { RarityKind(2, 1, 0, 1) }

TwoRunsInit ==
    /\ \E schema \in RerunSchemas :
       \E kinds \in SeqsUpTo(RerunKinds, MaxRerunRows) : \E k \in Splits(kinds) :
            combates = << MkTable(schema[1], k[1]), MkTable(schema[2], k[2]),
                          MkTable(schema[3], k[3]) >>
    /\ NothingCleaned
    /\ card_master_list = MasterBoth
    /\ wincons = WinconTwo
    /\ NothingProduced

TwoRunsNext == PipelineNext \/ Rerun

SpecTwoRuns == TwoRunsInit /\ [][TwoRunsNext]_vars

\* the source tables
SourceTables == <<combates, card_master_list, wincons>>

\* in the second run, what a node has written is what it wrote in the first
\* run (where it ran), and a run over without a raise has written what the
\* first run wrote
SecondRunAgrees ==
    previous_run # None =>
        /\ \A a \in ArtifactNames :
              (HasRun(Artifact[a]) /\ HasRun(previous_run[a])) =>
                  Artifact[a] = previous_run[a]
        /\ Completed => Artifact = previous_run

-----------------------------------------------------------------------------
(* Claims about the order of the entries of a top-N report.                  *)

\* where each cell stands when the cells are read column by column in the
\* order of the concatenated table's columns and, within a column, row by
\* row: <<0, column, table, row>>
TableOrder(cells) ==
    LET columns == UnionColumns(<<>>, combates_cleaned)
        place == [c \in Range(columns) |-> CHOOSE k \in 1..Len(columns) : columns[k] = c]
        read == cells
    IN  [p \in read |-> <<0, place[p[3]], p[1], p[2]>>]

\* where each cell stands when the winner-side columns are read first and the
\* loser-side columns after them, each side in table order
WinnerSideFirst(cells) ==
    LET order == TableOrder(cells)
        read == cells
    IN  [p \in read |->
            [order[p] EXCEPT ![1] = IF p[3] \in WinnerColumnNames THEN 0 ELSE 1]]

\* a stands before b
Earlier(a, b) ==
    \E k \in 1..Len(a) : a[k] < b[k] /\ \A j \in 1..(k - 1) : a[j] = b[j]

\* the report lists the values of cells by decreasing count, equal counts in
\* the order the values are first met when the cells are read in the given
\* order, and every value left out comes after the last entry (each value
\* has the key <<-count, where first met>>; the keys are totally ordered, so
\* comparing neighbours compares all)
OrderedTopN(report, cells, order) ==
    LET read == cells
        place == order
        values == Values(read)
        key == [v \in values |->
                    LET holding == {p \in read : Val(p) = v}
                        met == {place[p] : p \in holding}
                    IN  <<0 - Cardinality(holding)>>
                            \o (CHOOSE a \in met : \A b \in met \ {a} : Earlier(a, b))]
    IN  /\ Ids(report) \subseteq values
        /\ \A k \in 1..(Len(report) - 1) :
              Earlier(key[report[k].id], key[report[k + 1].id])
        /\ \A v \in values \ Ids(report) :
              /\ Len(report) = TopN
              /\ Earlier(key[report[TopN].id], key[v])

\* C17 as stated: every top-20 report is ordered by decreasing count, equal
\* counts by first insertion where the cells are inserted column by column in
\* table order and row by row, and ties at the cut-off go to the value
\* inserted earlier
C17_TiesByTableOrder ==
    /\ CardsReported =>
          OrderedTopN(most_used_cards_analysis.val.top_cards, UsedCells, TableOrder(UsedCells))
    /\ WinConditionsReported =>
          LET r == win_conditions_usage_analysis.val
          IN  /\ OrderedTopN(r.winner_win_conditions, WinnerCells, TableOrder(WinnerCells))
              /\ OrderedTopN(r.loser_win_conditions, LoserCells, TableOrder(LoserCells))
              /\ OrderedTopN(r.overall_win_conditions, WinnerCells \cup LoserCells,
                             TableOrder(WinnerCells \cup LoserCells))

\* C17, amended: the card report and the winner and loser win-condition
\* reports are ordered by decreasing count with equal counts in the order
\* the values are first met column by column in table order and row by row;
\* the report of all win conditions breaks ties by the order in which the
\* winner-side columns are read first and the loser-side columns after them
C17_TiesByInsertionOrder ==
    /\ CardsReported =>
          OrderedTopN(most_used_cards_analysis.val.top_cards, UsedCells, TableOrder(UsedCells))
    /\ WinConditionsReported =>
          LET r == win_conditions_usage_analysis.val
          IN  /\ OrderedTopN(r.winner_win_conditions, WinnerCells, TableOrder(WinnerCells))
              /\ OrderedTopN(r.loser_win_conditions, LoserCells, TableOrder(LoserCells))
              /\ OrderedTopN(r.overall_win_conditions, WinnerCells \cup LoserCells,
                             WinnerSideFirst(WinnerCells \cup LoserCells))

\* both analyzers have reported, and the report of all win conditions has a
\* tie between a card of a loser column and a card of a winner column to its
\* right
C17_Witness ==
    /\ WinConditionsReported
    /\ CardsReported
    /\ LET r == win_conditions_usage_analysis.val.overall_win_conditions
       IN  /\ Len(r) >= 2
           /\ r[1].count = r[2].count
           /\ \E p \in LoserCells : \E q \in WinnerCells :
                 /\ Val(p) = r[2].id
                 /\ Val(q) = r[1].id
                 /\ Earlier(TableOrder({p, q})[p], TableOrder({p, q})[q])

-----------------------------------------------------------------------------
(* Claims about the rarity sentences of the EDA summary.                     *)

WinnersUseMore == "Ganadores usan mas cartas"
LosersUseMore == "Perdedores usan mas cartas"

\* the places of the directional sentences among the insights
Directional(insights) ==
    {k \in 1..Len(insights) : insights[k][1] \in {WinnersUseMore, LosersUseMore}}

\* C18: for each tier of winner_vs_loser_comparison the summary holds exactly
\* one directional sentence when the tier's difference is not zero (winners
\* use more, with the difference, when it is positive; losers use more, with
\* its absolute value, when it is negative) and none when it is zero; it
\* holds no directional sentence on a tier the comparison lacks
C18_OneSentencePerNonZeroDelta ==
    (eda_summary.st = "ok" /\ rarity_distributions_analysis.st = "ok") =>
        LET comparison ==
                rarity_distributions_analysis.val.winner_vs_loser_comparison
            insights == eda_summary.val.insights
            directional == Directional(insights)
        IN  /\ \A j \in 1..Len(comparison) :
                  LET d == comparison[j].difference
                      about == {k \in directional :
                                    insights[k][2] = comparison[j].rarity}
                  IN  /\ d[2] > 0
                      /\ d[1] > 0 =>
                            /\ Cardinality(about) = 1
                            /\ \A k \in about :
                                  insights[k] =
                                      <<WinnersUseMore, comparison[j].rarity, d>>
                      /\ d[1] < 0 =>
                            /\ Cardinality(about) = 1
                            /\ \A k \in about :
                                  insights[k] =
                                      <<LosersUseMore, comparison[j].rarity,
                                        <<0 - d[1], d[2]>> >>
                      /\ d[1] = 0 => about = {}
            /\ \A k \in directional :
                  \E j \in 1..Len(comparison) : insights[k][2] = comparison[j].rarity

\* a summary with a sentence in each direction, over a comparison that lacks
\* two of the four tiers
C18_Witness ==
    /\ eda_summary.st = "ok"
    /\ rarity_distributions_analysis.st = "ok"
    /\ Len(rarity_distributions_analysis.val.winner_vs_loser_comparison) = 2
    /\ LET insights == eda_summary.val.insights
       IN  /\ \E k \in Directional(insights) : insights[k][1] = WinnersUseMore
           /\ \E k \in Directional(insights) : insights[k][1] = LosersUseMore

\* a summary without a sentence on a tier whose difference is zero
C18_WitnessZero ==
    /\ eda_summary.st = "ok"
    /\ rarity_distributions_analysis.st = "ok"
    /\ LET comparison ==
               rarity_distributions_analysis.val.winner_vs_loser_comparison
       IN  /\ \E j \in 1..Len(comparison) : comparison[j].difference[1] = 0
           /\ \E j \in 1..Len(comparison) : comparison[j].difference[1] # 0

-----------------------------------------------------------------------------
(* Claims about the size of the whitelist.                                   *)

\* the selected table of input table t
SelectedOf(t) ==
    <<selected_datasets.val.combates1, selected_datasets.val.combates2,
      selected_datasets.val.combates3>>[t]

\* the whitelisted columns whose name is one of names
Listed(names) == Cardinality(Whitelist \cap names)

CardSlots == 1..8

WinnerSlotIds ==
    {"winner.card1.id", "winner.card2.id", "winner.card3.id", "winner.card4.id",
     "winner.card5.id", "winner.card6.id", "winner.card7.id", "winner.card8.id"}

LoserSlotIds ==
    {"loser.card1.id", "loser.card2.id", "loser.card3.id", "loser.card4.id",
     "loser.card5.id", "loser.card6.id", "loser.card7.id", "loser.card8.id"}

CardLists == {"winner.cards.list", "loser.cards.list"}

RarityCounts == Range(winner_rarity_cols) \cup Range(loser_rarity_cols)

\* the whitelist is made of the identifiers, 8 winner card-slot ids, 8 loser
\* card-slot ids, the two cards.list fields and 8 rarity counts, each once
WhitelistParts ==
    /\ Cardinality(Whitelist) = Len(relevant_columns)
    /\ Whitelist = IdentifierColumns \cup WinnerSlotIds \cup LoserSlotIds
                        \cup CardLists \cup RarityCounts
    /\ Listed(WinnerSlotIds) = Cardinality(CardSlots)
    /\ Listed(LoserSlotIds) = Cardinality(CardSlots)
    /\ Listed(CardLists) = 2
    /\ Listed(RarityCounts) = 8

\* the selector leaves a table that has every whitelisted column with n
\* columns
FullTableKeeps(n) ==
    selected_datasets.st = "ok" =>
        \A t \in 1..3 :
            Whitelist \subseteq Range(combates_cleaned[t].columns) =>
                Len(SelectedOf(t).columns) = n

\* C19 as stated: the whitelist has exactly 28 columns (the identifiers, 8
\* winner card-slot ids, 8 loser card-slot ids, the two cards.list fields
\* and 8 rarity counts)
C19_WhitelistHas28Columns ==
    /\ WhitelistParts
    /\ Len(relevant_columns) = 28
    /\ FullTableKeeps(28)

\* C19, amended: the whitelist has exactly 29 columns (the three identifiers
\* battle_id, winner.tag and loser.tag, 8 winner card-slot ids, 8 loser
\* card-slot ids, the two cards.list fields and 8 rarity counts), and the
\* selector keeps 29 columns of a table that has them all
C19_WhitelistHas29Columns ==
    /\ WhitelistParts
    /\ Listed(IdentifierColumns) = 3
    /\ Len(relevant_columns) = 29
    /\ FullTableKeeps(29)

\* the selector has run on a table with every whitelisted column and one
\* column more
C19_Witness ==
    /\ selected_datasets.st = "ok"
    /\ \E t \in 1..3 :
          /\ Whitelist \subseteq Range(combates_cleaned[t].columns)
          /\ Len(combates_cleaned[t].columns) > Len(SelectedOf(t).columns)
          /\ NRows(combates_cleaned[t]) >= 1

-----------------------------------------------------------------------------
(* Claims about the sides of the win-condition counts.                       *)

\* C20: every win-condition cell of a matched card column is counted on
\* exactly one side: the winner and loser totals add up to total_wc_uses,
\* which is the number of non-null cells of the matched card columns that
\* hold a win-condition id
C20_EveryWinConditionCountedOnce ==
    WinConditionsReported =>
        LET stats == win_conditions_usage_analysis.val.usage_stats
        IN  /\ stats.total_wc_uses = Cardinality(WinConditionCells)
            /\ stats.total_winner_wc_uses + stats.total_loser_wc_uses =
                  stats.total_wc_uses
            /\ WinnerCells \cap LoserCells = {}
            /\ WinnerCells \cup LoserCells = WinConditionCells

-----------------------------------------------------------------------------
(* Claims about the battle_id column of a cleaned table.                     *)

\* C21: a table a cleaning node returns has exactly one column named
\* battle_id, and it is the leading column
C21_OneLeadingBattleId ==
    \A i \in 1..3 :
        IsTable(combates_cleaned[i]) =>
            Positions(combates_cleaned[i].columns, "battle_id") = <<1>>

-----------------------------------------------------------------------------
(* Claims about the rarity analyzer on tables without values.                *)

\* C22: the rarity analyzer does not raise, whatever the three tables hold,
\* and its report counts the rows of the three tables together
C22_RarityAnalyzerNeverRaises ==
    HasRun(rarity_distributions_analysis) =>
        /\ rarity_distributions_analysis.st = "ok"
        /\ HasKey(rarity_distributions_analysis.val, "total_records_analyzed")
        /\ rarity_distributions_analysis.val.total_records_analyzed =
              NRows(combates_cleaned[1]) + NRows(combates_cleaned[2])
                  + NRows(combates_cleaned[3])

-----------------------------------------------------------------------------
(* Claims about the entries the EDA summary names.                           *)

MostPopularCard == "Carta mas popular"
MostUsedWinCondition == "Win condition mas usada"

\* the insights of the summary that carry the given label
Labelled(label) ==
    LET insights == eda_summary.val.insights
    IN  {insights[k] : k \in {j \in 1..Len(insights) : insights[j][1] = label}}

\* the summary names, under the label, the first entry of the report, and
\* that entry stands for a value with the greatest count of the multiset of
\* cells
NamesTheMostCounted(label, report, cells) ==
    LET read == cells
    IN  IF report = <<>>
        THEN Labelled(label) = {}
        ELSE /\ Labelled(label) =
                    {<<label, report[1].card_name, report[1].percentage>>}
             /\ report[1].id \in Values(read)
             /\ report[1].count = CountIn(read, report[1].id)
             /\ \A v \in Values(read) : report[1].count >= CountIn(read, v)

\* C23: the card of the summary's most-popular-card insight and the win
\* condition of its most-used-win-condition insight are the first entries of
\* top_cards and overall_win_conditions, each with a count no value of the
\* analyzer's multiset exceeds, and most_popular_cards names the first five
\* (or fewer) entries of top_cards in their order
C23_SummaryNamesTheMostCounted ==
    eda_summary.st = "ok" =>
        /\ IF CardsReported
           THEN LET top == most_used_cards_analysis.val.top_cards
                    named == eda_summary.val.key_findings.most_popular_cards
                IN  /\ NamesTheMostCounted(MostPopularCard, top, UsedCells)
                    /\ Len(named) = IF Len(top) < 5 THEN Len(top) ELSE 5
                    /\ \A k \in 1..Len(named) : named[k] = top[k].card_name
           ELSE /\ Labelled(MostPopularCard) = {}
                /\ eda_summary.val.key_findings.most_popular_cards = <<>>
        /\ IF WinConditionsReported
           THEN NamesTheMostCounted(
                    MostUsedWinCondition,
                    win_conditions_usage_analysis.val.overall_win_conditions,
                    WinnerCells \cup LoserCells)
           ELSE Labelled(MostUsedWinCondition) = {}

\* a summary over more than five cards, the first of top_cards and of
\* overall_win_conditions counted more often than the second
C23_Witness ==
    /\ eda_summary.st = "ok"
    /\ CardsReported
    /\ WinConditionsReported
    /\ LET top == most_used_cards_analysis.val.top_cards
           overall == win_conditions_usage_analysis.val.overall_win_conditions
       IN  /\ Len(top) > 5
           /\ top[1].count > top[2].count
           /\ Len(overall) >= 2
           /\ overall[1].count > overall[2].count
           /\ Len(eda_summary.val.key_findings.most_popular_cards) = 5

====
